---- MODULE Spec2Model ----
(***************************************************************************)
(* ChatLab: streaming import into a session store (streamImport), the      *)
(* in-memory import used after a merge (importData), and the merge of      *)
(* several staging stores (checkConflictsWithTempDb, mergeFilesWithTempDb).*)
(*                                                                         *)
(* JavaScript values are modelled as follows.  An absent property          *)
(* (undefined / null / NaN) is a field missing from the record; the empty  *)
(* string is "".  A SQL NULL in a text column is the value NULL; a NULL    *)
(* end_ts is a row without the field end_ts.  In the merger a text is a    *)
(* sequence of one-character strings, so that its length and its shape can *)
(* be computed.                                                            *)
(***************************************************************************)
EXTENDS Integers, Sequences, FiniteSets, TLC

(* ------------------------------------------------------------------ *)
(* Bounds of the model.                                                *)
(* ------------------------------------------------------------------ *)

\* messages one parser run delivers to the import, over all its batches
MaxMsgs == 4

\* members and messages handed to the staging callbacks of one merge
MaxStaged == 3

(* ------------------------------------------------------------------ *)
(* Program constants.                                                  *)
(* ------------------------------------------------------------------ *)

BATCH_COMMIT_SIZE == 50000

CHECKPOINT_INTERVAL == 200000

NULL == "NULL"

(* ------------------------------------------------------------------ *)
(* Generic helpers.                                                    *)
(* ------------------------------------------------------------------ *)

\* every sequence over S of length lo..hi
RECURSIVE SeqsOfLen(_, _)
SeqsOfLen(S, n) ==
    IF n = 0 THEN { <<>> }
    ELSE { Append(s, x) : s \in SeqsOfLen(S, n - 1), x \in S }

BoundedSeqs(S, lo, hi) == UNION { SeqsOfLen(S, n) : n \in lo..hi }

\* JavaScript truthiness of a string property: absent and '' are falsy
Truthy(r, f) == f \in DOMAIN r /\ r[f] # ""

\* the JavaScript expression  r.f || null  bound to a text column
OrNull(r, f) == IF Truthy(r, f) THEN r[f] ELSE NULL

\* index of the first element of seq satisfying Test, 0 when there is none
FirstIndex(seq, Test(_)) ==
    IF \E i \in 1..Len(seq) : Test(seq[i])
    THEN CHOOSE i \in 1..Len(seq) :
            Test(seq[i]) /\ \A j \in 1..(i - 1) : ~Test(seq[j])
    ELSE 0

\* Array.prototype.sort with a numeric comparator is a stable sort: the
\* indices of S ordered by key, equal keys in index order
RECURSIVE SortPerm(_, _)
SortPerm(keys, S) ==
    IF S = {} THEN <<>>
    ELSE LET m == CHOOSE i \in S :
                     \A j \in S : keys[i] < keys[j] \/ (keys[i] = keys[j] /\ i <= j)
         IN  <<m>> \o SortPerm(keys, S \ {m})

\* a forgotten sort: the elements stay in the order they were collected
StableSort_Unsorted(seq, keys) == seq

\* seq sorted ascending by keys (keys[i] is the key of seq[i])
StableSort(seq, keys) ==
    LET perm == SortPerm(keys, 1..Len(seq))
    IN  [k \in 1..Len(seq) |-> seq[perm[k]]]

(* ------------------------------------------------------------------ *)
(* Inputs of the import: what a parser can deliver.                    *)
(* ------------------------------------------------------------------ *)

\* a well-formed ParsedMessage; g = "" stands for no group nickname
PMsg(p, a, g, t) ==
    [senderPlatformId |-> p, senderAccountName |-> a, senderGroupNickname |-> g,
     timestamp |-> t, type |-> 0, content |-> "hi"]

\* Sender "10" posts as A, B, B, A over four seconds while its group nickname
\* goes from N to M, and as B in second 1 again (the same second as A, and out
\* of order when it arrives late); sender "20" posts under its own id as
\* account name with a negative timestamp, and as C with type 6, which is no
\* member of MessageType.
ValidImportMsgs ==
    { PMsg("10", "A", "N", 1), PMsg("10", "B", "N", 2), PMsg("10", "B", "M", 3),
      PMsg("10", "A", "M", 4), PMsg("10", "B", "", 1), PMsg("20", "20", "", -5),
      [PMsg("20", "C", "", 5) EXCEPT !.type = 6] }

\* messages lacking a sender id, an account name, a timestamp or a type
BrokenImportMsgs ==
    { PMsg("", "A", "", 1),
      PMsg("10", "", "", 1),
      [senderPlatformId |-> "10", senderAccountName |-> "A",
       type |-> 0, content |-> "hi"],
      [senderPlatformId |-> "10", senderAccountName |-> "A", timestamp |-> 1,
       content |-> "hi"] }

ImportMsgs == ValidImportMsgs \cup BrokenImportMsgs

\* the rosters a parser's members event can carry
PMember(p, a) == [platformId |-> p, accountName |-> a]

Rosters ==
    { <<>>, <<PMember("10", "A"), PMember("20", "C"), PMember("10", "B")>> }

VARIABLES
    pc,                    \* position of the import
    store,                 \* the session store: member, message, history rows
    committedStore,        \* its content as of the last COMMIT
    memberIdMap,           \* platformId -> member.id
    accountNameTracker,    \* Map in insertion order: one entry per platformId
    groupNicknameTracker,
    metaInserted,
    messageCountInBatch,
    totalMessageCount,
    lastCheckpointCount,
    inTransaction,         \* the flag streamImport keeps
    dbTxnOpen,             \* whether the connection really has a transaction
    files,                 \* which of the store's files exist on disk
    delivered,             \* messages handed to onMessageBatch so far
    deliveredNoKey,        \* those lacking a sender id, a timestamp or a type
    deliveredNoName,       \* those lacking only the sender's account name
    deliveredWhole         \* those lacking none of the four, in order

importVars ==
    <<pc, store, committedStore, memberIdMap, accountNameTracker,
      groupNicknameTracker, metaInserted, messageCountInBatch,
      totalMessageCount, lastCheckpointCount, inTransaction, dbTxnOpen,
      files, delivered, deliveredNoKey, deliveredNoName, deliveredWhole>>

VARIABLES
    mergePc,               \* "staging", "checked" or "merged"
    staged,                \* members and messages handed to the staging callbacks
    stagePc,               \* per source file: position of streamParseFileInfo
    tempDb,                \* per source file: its staging store
    checkedPaths,          \* filePaths of the last conflict check
    checkResult,           \* what the last conflict check returned or threw
    autoDeduplicatedCount, \* the counter the last conflict check logged
    mergeParams,           \* MergeParams of the last merge
    mergeResult            \* what the last merge returned and wrote

mergeVars ==
    <<mergePc, staged, stagePc, tempDb, checkedPaths, checkResult,
      autoDeduplicatedCount, mergeParams, mergeResult>>

\* the worker thread and its manager in the main process
VARIABLES
    requestIdCounter,      \* the counter of sendToWorker
    pendingRequests,       \* the ids of the requests the manager waits for
    toWorker,              \* messages posted to the worker, not yet dispatched
    toMain,                \* messages the worker posted, not yet delivered
    timers,                \* the ids of the requests whose setTimeout is armed
    awaiting,              \* the requests whose listener is at its await
    listened,              \* the ids the listener of the running worker was called with
    workerPosts,           \* per id: what the running worker posted, in order
    settled                \* per id: the callbacks of the request the manager has
                           \* invoked, in order: onProgress, resolve, reject

workerVars ==
    <<requestIdCounter, pendingRequests, timers, toWorker, toMain, awaiting,
      listened, workerPosts, settled>>

\* one run of a parser under streamImport
VARIABLES
    parsePc,               \* position of the parser's generator
    file,                  \* the messages of the input file, by kind
    batchSize,             \* ParseOptions.batchSize
    onProgressGiven,       \* whether ParseOptions.onProgress is set
    totalBytes,
    bytesRead,
    pos,                   \* messages the pipeline has emitted so far
    messagesProcessed,
    batchCollector,
    messageBatch,
    batchIndex,            \* the i of the loop that yields the batches
    yielded,               \* the events the generator has yielded
    insertedCount,         \* totalMessageCount of the streamImport of this run
    sinceCommit,           \* its messageCountInBatch
    posted,                \* messages of the request posted to the manager
    received               \* what the manager has handed to the caller

parseVars ==
    <<parsePc, file, batchSize, onProgressGiven, totalBytes, bytesRead, pos,
      messagesProcessed, batchCollector, messageBatch, batchIndex, yielded,
      insertedCount, sinceCommit, posted, received>>

\* a session store as the message queries see it
VARIABLES
    pageMember,            \* the rows of table member
    pageMessage,           \* the rows of table message, by ascending id
    pageNextId,            \* the next id AUTOINCREMENT gives a message
    pageRequest,           \* the paging request whose response is in flight
    pageResult             \* and that response

pageVars == <<pageMember, pageMessage, pageNextId, pageRequest, pageResult>>

\* the message statistics of a session store
VARIABLES
    statMessage,           \* the rows of table message, ts counted in hours
    statRequest,           \* the statistics request whose response is in flight
    statResult             \* and that response

statVars == <<statMessage, statRequest, statResult>>

\* a session delete (chat:deleteSession) beside the requests of the session
VARIABLES
    delPc,                 \* position of the handler of chat:deleteSession
    delTarget,             \* the session it deletes
    delQueue,              \* the requests posted to the worker, not yet handled
    closeAnswered,         \* whether the worker has answered closeDatabase
    dbCache,               \* the sessions the worker holds an open handle for
    sessionFiles,          \* the sessions whose store files exist
    queriesSent            \* the number of other requests sent

deleteVars == <<delPc, delTarget, delQueue, closeAnswered, dbCache, sessionFiles, queriesSent>>

\* the staging stores on disk across application runs
VARIABLES
    appPc,                 \* whether the application runs
    tempDir,               \* the files of the temp directory
    tempDbCache,           \* the source files that have a staging store cached
    lastMerge              \* what the last merge:mergeFiles returned, and for which sources

stagingVars == <<appPc, tempDir, tempDbCache, lastMerge>>

\* streamImport with a preprocessor: the temporary files of the imports
VARIABLES
    prePc,                 \* position of streamImport: idle, preprocess, parsing, returned
    preRun,                \* number of the import, which names its temporary file
    tempFiles,             \* temporary files on disk, by the import that wrote them
    tempFilePath,          \* the local tempFilePath: 0 for null, else the file
    preResult              \* what streamImport gave its caller

preVars == <<prePc, preRun, tempFiles, tempFilePath, preResult>>

\* one session store with its session index
VARIABLES
    ixPc,                  \* position of chat:incrementalImport: idle, or imported before the rebuild
    ixMessage,             \* the message rows of the session, in id order
    ixNextId,              \* the next AUTOINCREMENT id of message
    sessionIndex,          \* the session-index entries, in order
    indexGap               \* the gap threshold the index was built with

indexVars == <<ixPc, ixMessage, ixNextId, sessionIndex, indexGap>>

vars == <<importVars, mergeVars, workerVars, parseVars, pageVars, statVars, deleteVars, stagingVars, preVars, indexVars>>

\* what an action of one component leaves alone
outsideImport == <<mergeVars, workerVars, parseVars, pageVars, statVars, deleteVars, stagingVars, preVars, indexVars>>
outsideMerge == <<importVars, workerVars, parseVars, pageVars, statVars, deleteVars, stagingVars, preVars, indexVars>>
outsideWorker == <<importVars, mergeVars, parseVars, pageVars, statVars, deleteVars, stagingVars, preVars, indexVars>>
outsideParse == <<importVars, mergeVars, workerVars, pageVars, statVars, deleteVars, stagingVars, preVars, indexVars>>
outsidePaging == <<importVars, mergeVars, workerVars, parseVars, statVars, deleteVars, stagingVars, preVars, indexVars>>
outsideStats == <<importVars, mergeVars, workerVars, parseVars, pageVars, deleteVars, stagingVars, preVars, indexVars>>
outsideDelete == <<importVars, mergeVars, workerVars, parseVars, pageVars, statVars, stagingVars, preVars, indexVars>>
outsideStaging == <<importVars, mergeVars, workerVars, parseVars, pageVars, statVars, deleteVars, preVars, indexVars>>
outsidePreprocess == <<importVars, mergeVars, workerVars, parseVars, pageVars, statVars, deleteVars, stagingVars, indexVars>>
outsideIndex == <<importVars, mergeVars, workerVars, parseVars, pageVars, statVars, deleteVars, stagingVars, preVars>>

(* ------------------------------------------------------------------ *)
(* The session store.                                                  *)
(* ------------------------------------------------------------------ *)

EmptyStore == [meta |-> <<>>, member |-> <<>>, message |-> <<>>, history |-> <<>>]

\* INSERT without OR IGNORE on a table without the UNIQUE constraint
insertMember_Always(db, platformId, accountName, groupNickname, avatar) ==
    [db EXCEPT !.member =
        Append(@, [id |-> Len(db.member) + 1, platform_id |-> platformId,
                   account_name |-> accountName,
                   group_nickname |-> groupNickname, avatar |-> avatar])]

\* INSERT OR IGNORE INTO member: platform_id is UNIQUE, id is AUTOINCREMENT
insertMember(db, platformId, accountName, groupNickname, avatar) ==
    IF \E i \in 1..Len(db.member) : db.member[i].platform_id = platformId
    THEN db
    ELSE [db EXCEPT !.member =
            Append(@, [id |-> Len(db.member) + 1, platform_id |-> platformId,
                       account_name |-> accountName,
                       group_nickname |-> groupNickname, avatar |-> avatar])]

\* SELECT id FROM member WHERE platform_id = ? : 0 when there is no row
getMemberId(db, platformId) ==
    LET i == FirstIndex(db.member, LAMBDA r : r.platform_id = platformId)
    IN  IF i = 0 THEN 0 ELSE db.member[i].id

insertMessage(db, senderId, accountName, groupNickname, ts, type, content) ==
    [db EXCEPT !.message =
        Append(@, [id |-> Len(db.message) + 1, sender_id |-> senderId,
                   sender_account_name |-> accountName,
                   sender_group_nickname |-> groupNickname,
                   ts |-> ts, type |-> type, content |-> content])]

\* a NULL end_ts is a row without the field
insertNameHistory(db, memberId, nameType, name, startTs, hasEnd, endTs) ==
    LET base == [id |-> Len(db.history) + 1, member_id |-> memberId,
                 name_type |-> nameType, name |-> name, start_ts |-> startTs]
        row  == IF hasEnd THEN base @@ [end_ts |-> endTs] ELSE base
    IN  [db EXCEPT !.history = Append(@, row)]

updateMemberAccountName(db, name, platformId) ==
    [db EXCEPT !.member =
        [i \in 1..Len(@) |-> IF @[i].platform_id = platformId
                             THEN [@[i] EXCEPT !.account_name = name]
                             ELSE @[i]]]

updateMemberGroupNickname(db, name, platformId) ==
    [db EXCEPT !.member =
        [i \in 1..Len(@) |-> IF @[i].platform_id = platformId
                             THEN [@[i] EXCEPT !.group_nickname = name]
                             ELSE @[i]]]

(* ------------------------------------------------------------------ *)
(* streamImport: the handlers of the parser's events.                  *)
(* ------------------------------------------------------------------ *)

\* a tracker Map kept in insertion order; 0 when platformId has no entry
TrackerIndex(tracker, platformId) ==
    FirstIndex(tracker, LAMBDA e : e.platformId = platformId)

\* one of the two name trackers after a message carrying `name` at `ts`
trackName(tracker, platformId, name, ts) ==
    LET i == TrackerIndex(tracker, platformId)
    IN  IF i = 0
        THEN Append(tracker, [platformId |-> platformId, currentName |-> name,
                              lastSeenTs |-> ts,
                              history |-> << [name |-> name, startTs |-> ts] >>])
        ELSE IF tracker[i].currentName # name
        THEN [tracker EXCEPT
                ![i].history = Append(@, [name |-> name, startTs |-> ts]),
                ![i].currentName = name,
                ![i].lastSeenTs = ts]
        ELSE [tracker EXCEPT ![i].lastSeenTs = ts]

\* a slip in the validation: the nickname is tested where the account name is
skipsMessage_WrongField(msg) ==
    \/ ~Truthy(msg, "senderPlatformId")
    \/ ~Truthy(msg, "senderGroupNickname")
    \/ "timestamp" \notin DOMAIN msg
    \/ "type" \notin DOMAIN msg

\* the validation at the head of the loop body: TRUE when msg is skipped
skipsMessage(msg) ==
    \/ ~Truthy(msg, "senderPlatformId")
    \/ ~Truthy(msg, "senderAccountName")
    \/ "timestamp" \notin DOMAIN msg
    \/ "type" \notin DOMAIN msg

\* COMMIT, the periodic checkpoint, and BEGIN of the next transaction
commitAndBeginNew(st) ==
    LET committed ==
            IF st.inTransaction
            THEN [st EXCEPT
                    !.committedStore = st.store,
                    !.lastCheckpointCount =
                        IF st.totalMessageCount - @ >= CHECKPOINT_INTERVAL
                        THEN st.totalMessageCount ELSE @]
            ELSE st
    IN  [committed EXCEPT !.inTransaction = TRUE, !.dbTxnOpen = TRUE]

\* the body of the loop of onMessageBatch for one message
processMessage(st, msg) ==
    IF skipsMessage(msg) THEN st
    ELSE
    LET p  == msg.senderPlatformId
        known == p \in DOMAIN st.memberIdMap
        db1 == IF known THEN st.store
               ELSE insertMember(st.store, p, OrNull(msg, "senderAccountName"),
                                 OrNull(msg, "senderGroupNickname"), NULL)
        row == getMemberId(db1, p)
        map1 == IF ~known /\ row # 0 THEN (p :> row) @@ st.memberIdMap
                ELSE st.memberIdMap
    IN  IF p \notin DOMAIN map1 THEN [st EXCEPT !.store = db1]
        ELSE
        LET db2 == insertMessage(db1, map1[p], OrNull(msg, "senderAccountName"),
                                 OrNull(msg, "senderGroupNickname"),
                                 msg.timestamp, msg.type, msg.content)
            acct == IF msg.senderAccountName # p
                    THEN trackName(st.accountNameTracker, p,
                                   msg.senderAccountName, msg.timestamp)
                    ELSE st.accountNameTracker
            nick == IF Truthy(msg, "senderGroupNickname")
                    THEN trackName(st.groupNicknameTracker, p,
                                   msg.senderGroupNickname, msg.timestamp)
                    ELSE st.groupNicknameTracker
            st1 == [st EXCEPT !.store = db2, !.memberIdMap = map1,
                              !.accountNameTracker = acct,
                              !.groupNicknameTracker = nick,
                              !.messageCountInBatch = @ + 1,
                              !.totalMessageCount = @ + 1]
        IN  IF st1.messageCountInBatch >= BATCH_COMMIT_SIZE
            THEN [commitAndBeginNew(st1) EXCEPT !.messageCountInBatch = 0]
            ELSE st1

RECURSIVE processBatch(_, _)
processBatch(st, messages) ==
    IF messages = <<>> THEN st
    ELSE processBatch(processMessage(st, Head(messages)), Tail(messages))

(* ------------------------------------------------------------------ *)
(* streamImport: writing the name history after parsing.               *)
(* ------------------------------------------------------------------ *)

\* the Map uniqueNames built from a tracker's history: one entry per name,
\* in order of first appearance, keeping the first startTs of the name
RECURSIVE uniqueNamesOf(_, _)
uniqueNamesOf(history, acc) ==
    IF history = <<>> THEN acc
    ELSE LET h == Head(history)
             i == FirstIndex(acc, LAMBDA e : e.name = h.name)
         IN  uniqueNamesOf(Tail(history),
                 IF i = 0
                 THEN Append(acc, [name |-> h.name, startTs |-> h.startTs,
                                   lastTs |-> h.startTs])
                 ELSE [acc EXCEPT ![i].lastTs = h.startTs])

\* uniqueNames.delete(key)
deleteName(names, key) == SelectSeq(names, LAMBDA e : e.name # key)

\* the loop inserting sortedHistory[i..]: each row ends where the next starts
RECURSIVE insertSortedHistory(_, _, _, _, _)
insertSortedHistory(db, senderId, nameType, sortedHistory, i) ==
    IF i > Len(sortedHistory) THEN db
    ELSE LET last == (i = Len(sortedHistory))
             endTs == IF last THEN 0 ELSE sortedHistory[i + 1].startTs
         IN  insertSortedHistory(
                 insertNameHistory(db, senderId, nameType, sortedHistory[i].name,
                                   sortedHistory[i].startTs, ~last, endTs),
                 senderId, nameType, sortedHistory, i + 1)

\* the body of the loop over accountNameTracker.entries()
flushAccountName(db, idMap, entry) ==
    LET platformId == entry.platformId
    IN  IF platformId \in {"", "0", "undefined"} THEN db
        ELSE IF platformId \notin DOMAIN idMap \/ idMap[platformId] = 0 THEN db
        ELSE
        LET uniqueNames == deleteName(uniqueNamesOf(entry.history, <<>>), platformId)
            sortedHistory ==
                StableSort(uniqueNames,
                           [k \in 1..Len(uniqueNames) |-> uniqueNames[k].startTs])
        IN  IF Len(uniqueNames) <= 1
            THEN updateMemberAccountName(db, entry.currentName, platformId)
            ELSE updateMemberAccountName(
                     insertSortedHistory(db, idMap[platformId], "account_name",
                                         sortedHistory, 1),
                     entry.currentName, platformId)

\* the body of the loop over groupNicknameTracker.entries()
flushGroupNickname(db, idMap, entry) ==
    LET platformId == entry.platformId
    IN  IF platformId \in {"", "0", "undefined"} THEN db
        ELSE IF platformId \notin DOMAIN idMap \/ idMap[platformId] = 0 THEN db
        ELSE
        LET uniqueNames == uniqueNamesOf(entry.history, <<>>)
            sortedHistory ==
                StableSort(uniqueNames,
                           [k \in 1..Len(uniqueNames) |-> uniqueNames[k].startTs])
        IN  IF Len(uniqueNames) <= 1
            THEN updateMemberGroupNickname(db, entry.currentName, platformId)
            ELSE updateMemberGroupNickname(
                     insertSortedHistory(db, idMap[platformId], "group_nickname",
                                         sortedHistory, 1),
                     entry.currentName, platformId)

RECURSIVE flushAccountNames(_, _, _)
flushAccountNames(db, idMap, tracker) ==
    IF tracker = <<>> THEN db
    ELSE flushAccountNames(flushAccountName(db, idMap, Head(tracker)),
                           idMap, Tail(tracker))

RECURSIVE flushGroupNicknames(_, _, _)
flushGroupNicknames(db, idMap, tracker) ==
    IF tracker = <<>> THEN db
    ELSE flushGroupNicknames(flushGroupNickname(db, idMap, Head(tracker)),
                             idMap, Tail(tracker))

\* both loops, account names first
writeNameHistory(db, idMap, acct, nick) ==
    flushGroupNicknames(flushAccountNames(db, idMap, acct), idMap, nick)

(* ------------------------------------------------------------------ *)
(* streamImport: the steps of one import.                              *)
(* ------------------------------------------------------------------ *)

StoreFiles == {"db", "wal", "shm"}

ImportInit ==
    /\ pc = "idle"
    /\ store = EmptyStore
    /\ committedStore = EmptyStore
    /\ memberIdMap = <<>>
    /\ accountNameTracker = <<>>
    /\ groupNicknameTracker = <<>>
    /\ metaInserted = FALSE
    /\ messageCountInBatch = 0
    /\ totalMessageCount = 0
    /\ lastCheckpointCount = 0
    /\ inTransaction = FALSE
    /\ dbTxnOpen = FALSE
    /\ files = {}
    /\ delivered = 0
    /\ deliveredNoKey = 0
    /\ deliveredNoName = 0
    /\ deliveredWhole = <<>>

\* createDatabaseWithoutIndexes, then beginTransaction
StartImport ==
    /\ pc = "idle"
    /\ pc' = "meta"
    /\ files' = StoreFiles
    /\ inTransaction' = TRUE
    /\ dbTxnOpen' = TRUE
    /\ UNCHANGED <<store, committedStore, memberIdMap, accountNameTracker,
                   groupNicknameTracker, metaInserted, messageCountInBatch,
                   totalMessageCount, lastCheckpointCount, delivered,
                   deliveredNoKey, deliveredNoName, deliveredWhole>>
    /\ UNCHANGED outsideImport

OnMeta ==
    /\ pc = "meta"
    /\ pc' = "members"
    /\ store' = IF metaInserted THEN store
                ELSE [store EXCEPT !.meta = Append(@, [name |-> "G"])]
    /\ metaInserted' = TRUE
    /\ UNCHANGED <<committedStore, memberIdMap, accountNameTracker,
                   groupNicknameTracker, messageCountInBatch, totalMessageCount,
                   lastCheckpointCount, inTransaction, dbTxnOpen, files,
                   delivered, deliveredNoKey, deliveredNoName, deliveredWhole>>
    /\ UNCHANGED outsideImport

\* the loop of onMembers over the roster
RECURSIVE addMembers(_, _, _)
addMembers(db, idMap, members) ==
    IF members = <<>> THEN [store |-> db, memberIdMap |-> idMap]
    ELSE LET m == Head(members)
             db1 == insertMember(db, m.platformId, OrNull(m, "accountName"),
                                 OrNull(m, "groupNickname"), OrNull(m, "avatar"))
             row == getMemberId(db1, m.platformId)
         IN  addMembers(db1,
                        IF row # 0 THEN (m.platformId :> row) @@ idMap ELSE idMap,
                        Tail(members))

OnMembers(members) ==
    /\ pc = "members"
    /\ pc' = "messages"
    /\ LET r == addMembers(store, memberIdMap, members)
       IN  /\ store' = r.store
           /\ memberIdMap' = r.memberIdMap
    /\ UNCHANGED <<committedStore, accountNameTracker, groupNicknameTracker,
                   metaInserted, messageCountInBatch, totalMessageCount,
                   lastCheckpointCount, inTransaction, dbTxnOpen, files,
                   delivered, deliveredNoKey, deliveredNoName, deliveredWhole>>
    /\ UNCHANGED outsideImport

LacksKey(msg) ==
    \/ ~Truthy(msg, "senderPlatformId")
    \/ "timestamp" \notin DOMAIN msg
    \/ "type" \notin DOMAIN msg

CountOf(seq, Test(_)) == Cardinality({ i \in 1..Len(seq) : Test(seq[i]) })

OnMessageBatch(messages) ==
    /\ pc = "messages"
    /\ delivered + Len(messages) <= MaxMsgs
    /\ LET st == processBatch(
                    [store |-> store, committedStore |-> committedStore,
                     memberIdMap |-> memberIdMap,
                     accountNameTracker |-> accountNameTracker,
                     groupNicknameTracker |-> groupNicknameTracker,
                     messageCountInBatch |-> messageCountInBatch,
                     totalMessageCount |-> totalMessageCount,
                     lastCheckpointCount |-> lastCheckpointCount,
                     inTransaction |-> inTransaction, dbTxnOpen |-> dbTxnOpen],
                    messages)
       IN  /\ store' = st.store
           /\ committedStore' = st.committedStore
           /\ memberIdMap' = st.memberIdMap
           /\ accountNameTracker' = st.accountNameTracker
           /\ groupNicknameTracker' = st.groupNicknameTracker
           /\ messageCountInBatch' = st.messageCountInBatch
           /\ totalMessageCount' = st.totalMessageCount
           /\ lastCheckpointCount' = st.lastCheckpointCount
           /\ inTransaction' = st.inTransaction
           /\ dbTxnOpen' = st.dbTxnOpen
    /\ delivered' = delivered + Len(messages)
    /\ deliveredNoKey' = deliveredNoKey + CountOf(messages, LacksKey)
    /\ deliveredNoName' = deliveredNoName
          + CountOf(messages, LAMBDA m : ~LacksKey(m) /\ ~Truthy(m, "senderAccountName"))
    /\ deliveredWhole' = deliveredWhole
          \o SelectSeq(messages, LAMBDA m : ~LacksKey(m) /\ Truthy(m, "senderAccountName"))
    /\ UNCHANGED <<pc, metaInserted, files>>
    /\ UNCHANGED outsideImport

\* Everything streamImport does once streamParseFile has returned: COMMIT of
\* the last message transaction; BEGIN, the two name-history loops, COMMIT;
\* createIndexes; the final checkpoint; return { success: true }; db.close()
\* in finally.  The locals of the call are gone when it returns.
CompleteImport ==
    /\ pc = "messages"
    /\ pc' = "done"
    /\ store' = writeNameHistory(store, memberIdMap, accountNameTracker,
                                 groupNicknameTracker)
    /\ committedStore' = store'
    /\ inTransaction' = FALSE
    /\ dbTxnOpen' = FALSE
    /\ files' = {"db"}
    /\ memberIdMap' = <<>>
    /\ accountNameTracker' = <<>>
    /\ groupNicknameTracker' = <<>>
    /\ messageCountInBatch' = 0
    /\ totalMessageCount' = 0
    /\ lastCheckpointCount' = 0
    /\ UNCHANGED <<metaInserted, delivered, deliveredNoKey, deliveredNoName, deliveredWhole>>
    /\ UNCHANGED outsideImport

\* An exception reaches the catch block.  stage says where it was thrown:
\* "parsing" by the parser or by an insert of a handler, "history" inside the
\* name-history transaction (after the last COMMIT and the BEGIN that does not
\* set inTransaction), "indexes" by createIndexes.  The catch block issues
\* ROLLBACK only when inTransaction is set, and unlinks the store file alone:
\* its rows are gone with it.  db.close() in finally ends the transaction that
\* is left and removes the sidecars only when its checkpoint succeeds
\* (sidecarsRemoved).
FailImport(stage, sidecarsRemoved) ==
    /\ pc \in {"meta", "members", "messages"}
    /\ stage \in {"parsing", "history", "indexes"}
    /\ stage # "parsing" => pc = "messages"
    /\ pc' = "failed"
    /\ store' = EmptyStore
    /\ committedStore' = EmptyStore
    /\ inTransaction' = (stage = "parsing" /\ inTransaction)
    /\ dbTxnOpen' = FALSE
    /\ files' = IF sidecarsRemoved THEN {} ELSE StoreFiles \ {"db"}
    /\ memberIdMap' = <<>>
    /\ accountNameTracker' = <<>>
    /\ groupNicknameTracker' = <<>>
    /\ messageCountInBatch' = 0
    /\ totalMessageCount' = 0
    /\ lastCheckpointCount' = 0
    /\ UNCHANGED <<metaInserted, delivered, deliveredNoKey, deliveredNoName, deliveredWhole>>
    /\ UNCHANGED outsideImport

(* ------------------------------------------------------------------ *)
(* importData: the import of a whole ParseResult in one transaction.   *)
(* ------------------------------------------------------------------ *)

\* UPDATE member_name_history SET end_ts = ? WHERE member_id = ? AND
\* name_type = ? AND end_ts IS NULL
updateNameHistoryEndTs(db, endTs, memberId, nameType) ==
    [db EXCEPT !.history =
        [i \in 1..Len(@) |->
            IF /\ @[i].member_id = memberId
               /\ @[i].name_type = nameType
               /\ "end_ts" \notin DOMAIN @[i]
            THEN @[i] @@ [end_ts |-> endTs]
            ELSE @[i]]]

\* one of the two trackers of importData: name history is written as the
\* messages are read.  r is [store, tracker].
trackAndWrite(r, senderId, platformId, nameType, name, ts) ==
    LET i == TrackerIndex(r.tracker, platformId)
    IN  IF i = 0
        THEN [store |-> insertNameHistory(r.store, senderId, nameType, name, ts,
                                          FALSE, 0),
              tracker |-> Append(r.tracker, [platformId |-> platformId,
                                             currentName |-> name,
                                             lastSeenTs |-> ts])]
        ELSE IF r.tracker[i].currentName # name
        THEN [store |-> insertNameHistory(
                            updateNameHistoryEndTs(r.store, ts, senderId, nameType),
                            senderId, nameType, name, ts, FALSE, 0),
              tracker |-> [r.tracker EXCEPT ![i].currentName = name,
                                            ![i].lastSeenTs = ts]]
        ELSE [store |-> r.store,
              tracker |-> [r.tracker EXCEPT ![i].lastSeenTs = ts]]

\* the loop of importData over sortedMessages; st is
\* [store, memberIdMap, accountNameTracker, groupNicknameTracker]
RECURSIVE importSorted(_, _)
importSorted(st, sortedMessages) ==
    IF sortedMessages = <<>> THEN st
    ELSE
    LET msg == Head(sortedMessages)
        p == msg.senderPlatformId
    IN  IF p \notin DOMAIN st.memberIdMap
        THEN importSorted(st, Tail(sortedMessages))
        ELSE
        LET senderId == st.memberIdMap[p]
            db1 == insertMessage(st.store, senderId,
                                 OrNull(msg, "senderAccountName"),
                                 OrNull(msg, "senderGroupNickname"),
                                 msg.timestamp, msg.type, msg.content)
            a == IF Truthy(msg, "senderAccountName")
                 THEN trackAndWrite([store |-> db1,
                                     tracker |-> st.accountNameTracker],
                                    senderId, p, "account_name",
                                    msg.senderAccountName, msg.timestamp)
                 ELSE [store |-> db1, tracker |-> st.accountNameTracker]
            g == IF Truthy(msg, "senderGroupNickname")
                 THEN trackAndWrite([store |-> a.store,
                                     tracker |-> st.groupNicknameTracker],
                                    senderId, p, "group_nickname",
                                    msg.senderGroupNickname, msg.timestamp)
                 ELSE [store |-> a.store, tracker |-> st.groupNicknameTracker]
        IN  importSorted([st EXCEPT !.store = g.store,
                                    !.accountNameTracker = a.tracker,
                                    !.groupNicknameTracker = g.tracker],
                         Tail(sortedMessages))

\* the closing loops: the member rows take the trackers' current names
RECURSIVE updateCurrentNames(_, _, _)
updateCurrentNames(db, tracker, nameType) ==
    IF tracker = <<>> THEN db
    ELSE updateCurrentNames(
             IF nameType = "account_name"
             THEN updateMemberAccountName(db, Head(tracker).currentName,
                                          Head(tracker).platformId)
             ELSE updateMemberGroupNickname(db, Head(tracker).currentName,
                                            Head(tracker).platformId),
             Tail(tracker), nameType)

\* the store importData leaves for a ParseResult
importData(parseResult) ==
    LET withMeta == [EmptyStore EXCEPT !.meta = <<[name |-> "G"]>>]
        m == addMembers(withMeta, <<>>, parseResult.members)
        sortedMessages ==
            StableSort(parseResult.messages,
                       [k \in 1..Len(parseResult.messages) |->
                            parseResult.messages[k].timestamp])
        st == importSorted([store |-> m.store, memberIdMap |-> m.memberIdMap,
                            accountNameTracker |-> <<>>,
                            groupNicknameTracker |-> <<>>],
                           sortedMessages)
    IN  updateCurrentNames(
            updateCurrentNames(st.store, st.accountNameTracker, "account_name"),
            st.groupNicknameTracker, "group_nickname")

\* createDatabase, the transaction, return sessionId, db.close() in finally
ImportData(parseResult) ==
    /\ pc = "idle"
    /\ pc' = "imported"
    /\ store' = importData(parseResult)
    /\ committedStore' = store'
    /\ files' = {"db"}
    /\ UNCHANGED <<memberIdMap, accountNameTracker, groupNicknameTracker,
                   metaInserted, messageCountInBatch, totalMessageCount,
                   lastCheckpointCount, inTransaction, dbTxnOpen, delivered,
                   deliveredNoKey, deliveredNoName, deliveredWhole>>
    /\ UNCHANGED outsideImport

ImportNext ==
    \/ StartImport
    \/ OnMeta
    \/ \E members \in Rosters : OnMembers(members)
    \/ \E m \in ImportMsgs : OnMessageBatch(<<m>>)
    \/ \E m1, m2 \in ImportMsgs : OnMessageBatch(<<m1, m2>>)
    \/ CompleteImport
    \/ \E stage \in {"parsing", "history", "indexes"}, sidecarsRemoved \in BOOLEAN :
          FailImport(stage, sidecarsRemoved)
    \/ /\ pc = "idle"
       /\ \E members \in Rosters, messages \in BoundedSeqs(ValidImportMsgs, 0, MaxMsgs) :
             ImportData([members |-> members, messages |-> messages])

(* ------------------------------------------------------------------ *)
(* The merger: texts, message keys, the picture pattern.               *)
(* ------------------------------------------------------------------ *)

\* A text of the merger is a sequence of characters, one string per
\* character; an absent property is an absent field.  The two CJK characters
\* of the picture marker are written by their code points.
TU == "U+56FE"
PIAN == "U+7247"

\* what \s matches and trim() strips, and what "." does not match
Whitespace == {" ", "LF"}
LineTerminators == {"LF"}

\* JavaScript truthiness of a text property
TextTruthy(r, f) == f \in DOMAIN r /\ r[f] # <<>>

\* the record r with field f set to v
Put(r, f, v) == [x \in DOMAIN r \cup {f} |-> IF x = f THEN v ELSE r[x]]

\* r with field f copied from s[g] when s[g] is truthy  (the "x || null" of a
\* write and the "x || undefined" of a read)
PutIfTruthy(r, f, s, g) == IF TextTruthy(s, g) THEN Put(r, f, s[g]) ELSE r

Digit(d) == <<"0", "1", "2", "3", "4", "5", "6", "7", "8", "9">>[d + 1]

RECURSIVE DigitsOf(_)
DigitsOf(n) ==
    IF n < 10 THEN <<Digit(n)>>
    ELSE Append(DigitsOf(n \div 10), Digit(n % 10))

\* a number in a template literal
NumberToString(n) == IF n < 0 THEN <<"-">> \o DigitsOf(0 - n) ELSE DigitsOf(n)

\* msg.content || ''
contentOrEmpty(msg) == IF TextTruthy(msg, "content") THEN msg.content ELSE <<>>

\* a key that leaves the content length out
getMessageKey_NoLength(msg) ==
    NumberToString(msg.timestamp) \o <<"_">> \o msg.senderPlatformId

\* `${msg.timestamp}_${msg.senderPlatformId}_${(msg.content || '').length}`
getMessageKey(msg) ==
    NumberToString(msg.timestamp) \o <<"_">> \o msg.senderPlatformId
        \o <<"_">> \o NumberToString(Len(contentOrEmpty(msg)))

\* text from the first to the last of the positions keep
SubSeqOver(text, keep) ==
    IF keep = {} THEN <<>>
    ELSE SubSeq(text, CHOOSE i \in keep : \A j \in keep : i <= j,
                      CHOOSE i \in keep : \A j \in keep : i >= j)

\* String.prototype.trim
trim(text) ==
    SubSeqOver(text, { i \in 1..Len(text) : text[i] \notin Whitespace })

ImagePrefix == <<"[", TU, PIAN, ":">>

\* a test that never recognises a picture
isImageOnlyMessage_Never(content) == FALSE

\* /^\[..:\s*.+\]$/.test(t): the marker, white space up to some k, one or
\* more characters that end no line, the closing bracket at the end
matchesImagePattern(t) ==
    /\ Len(t) >= Len(ImagePrefix) + 2
    /\ SubSeq(t, 1, Len(ImagePrefix)) = ImagePrefix
    /\ t[Len(t)] = "]"
    /\ \E k \in Len(ImagePrefix)..(Len(t) - 2) :
          /\ \A i \in (Len(ImagePrefix) + 1)..k : t[i] \in Whitespace
          /\ \A i \in (k + 1)..(Len(t) - 1) : t[i] \notin LineTerminators

\* !content is false and the pattern matches content.trim()
isImageOnlyMessage(content) ==
    IF content = <<>> THEN FALSE ELSE matchesImagePattern(trim(content))

(* ------------------------------------------------------------------ *)
(* The merger: conflict detection.                                     *)
(* ------------------------------------------------------------------ *)

\* the keys of a Map filled from seq, in insertion order
AppendNew(r, x) == IF \E i \in 1..Len(r) : r[i] = x THEN r ELSE Append(r, x)

RECURSIVE Distinct(_)
Distinct(seq) ==
    IF seq = <<>> THEN <<>>
    ELSE AppendNew(Distinct(SubSeq(seq, 1, Len(seq) - 1)), seq[Len(seq)])

\* a Map from Key(item) to the items with that key, as its entries in
\* insertion order
entriesOf(items, Key(_), keys) ==
    [k \in 1..Len(keys) |->
        [key |-> keys[k],
         items |-> SelectSeq(items, LAMBDA it : Key(it) = keys[k])]]

groupBy(items, Key(_)) ==
    entriesOf(items, Key, Distinct([i \in 1..Len(items) |-> Key(items[i])]))

RECURSIVE Flatten(_)
Flatten(seqs) ==
    IF seqs = <<>> THEN <<>> ELSE Head(seqs) \o Flatten(Tail(seqs))

RECURSIVE SumSeq(_)
SumSeq(seq) == IF seq = <<>> THEN 0 ELSE Head(seq) + SumSeq(Tail(seq))

sourcesOf(items) == { items[i].source : i \in 1..Len(items) }

\* the pairs (i, j), i < j, of 1..n in the order of the two nested loops
IndexPairs(n) ==
    SelectSeq([k \in 1..(n * n) |-> <<((k - 1) \div n) + 1, ((k - 1) % n) + 1>>],
              LAMBDA p : p[1] < p[2])

\* one pass of the inner loop: "skip", "image" or the conflict found
comparePair(ts, sender, entry1, entry2) ==
    LET item1 == entry1.items[1]
        j2    == FirstIndex(entry2.items, LAMBDA it : it.source # item1.source)
    IN  IF j2 = 0 THEN [kind |-> "skip"]
        ELSE IF isImageOnlyMessage(entry1.key) /\ isImageOnlyMessage(entry2.key)
             THEN [kind |-> "image"]
        ELSE [kind |-> "conflict",
              idPrefix |-> <<"conflict", "_">> \o NumberToString(ts) \o <<"_">>
                               \o sender \o <<"_">>,
              conflict |->
                [timestamp |-> ts,
                 sender |-> IF TextTruthy(item1.msg, "senderName")
                            THEN item1.msg.senderName ELSE sender,
                 contentLength1 |-> Len(entry1.key),
                 contentLength2 |-> Len(entry2.key),
                 content1 |-> entry1.key,
                 content2 |-> entry2.key]]

\* the pairs of contentEntries compared in loop order
comparePairs(ts, sender, contentEntries, pairs) ==
    [k \in 1..Len(pairs) |->
        comparePair(ts, sender, contentEntries[pairs[k][1]],
                    contentEntries[pairs[k][2]])]

\* autoDeduplicatedCount += contentItems.length - 1, per content group
sameContentCount(contentEntries) ==
    SumSeq([k \in 1..Len(contentEntries) |->
        IF /\ Len(contentEntries[k].items) > 1
           /\ Cardinality(sourcesOf(contentEntries[k].items)) > 1
        THEN Len(contentEntries[k].items) - 1 ELSE 0])

\* the conflicts found in one sender group and the increase of
\* autoDeduplicatedCount
groupOutcome(found, same) ==
    [conflicts |-> SelectSeq(found, LAMBDA f : f.kind = "conflict"),
     auto |-> same + Len(SelectSeq(found, LAMBDA f : f.kind = "image"))]

detectInContentGroups(ts, sender, contentEntries) ==
    groupOutcome(
        comparePairs(ts, sender, contentEntries, IndexPairs(Len(contentEntries))),
        sameContentCount(contentEntries))

\* the body of the loop over senderGroups
detectInSenderGroup(ts, sender, senderItems) ==
    IF Len(senderItems) < 2 \/ Cardinality(sourcesOf(senderItems)) < 2
    THEN [conflicts |-> <<>>, auto |-> 0]
    ELSE detectInContentGroups(ts, sender,
             groupBy(senderItems, LAMBDA it : contentOrEmpty(it.msg)))

detectInSenderGroups(ts, senderGroups) ==
    [k \in 1..Len(senderGroups) |->
        detectInSenderGroup(ts, senderGroups[k].key, senderGroups[k].items)]

\* the body of the loop over timeGroups
detectInTimeGroup(ts, items) ==
    IF Len(items) < 2 THEN <<>>
    ELSE detectInSenderGroups(ts, groupBy(items, LAMBDA it : it.msg.senderPlatformId))

detectInTimeGroups(timeGroups) ==
    Flatten([k \in 1..Len(timeGroups) |->
        detectInTimeGroup(timeGroups[k].key, timeGroups[k].items)])

\* conflicts.push({ id: `conflict_${ts}_${sender}_${conflicts.length}`, ... })
pushConflict(hit, n) == Put(hit.conflict, "id", hit.idPrefix \o NumberToString(n))

pushConflicts(hits) == [n \in 1..Len(hits) |-> pushConflict(hits[n], n - 1)]

\* the result, with the counter that is logged and not returned
resultOf(allMessages, found) ==
    [conflicts |-> pushConflicts(Flatten([k \in 1..Len(found) |-> found[k].conflicts])),
     totalMessages |-> Cardinality({ getMessageKey(allMessages[i].msg) :
                                        i \in 1..Len(allMessages) }),
     autoDeduplicatedCount |-> SumSeq([k \in 1..Len(found) |-> found[k].auto])]

detectConflictsInMessages(allMessages) ==
    resultOf(allMessages,
        detectInTimeGroups(groupBy(allMessages, LAMBDA it : it.msg.timestamp)))

(* ------------------------------------------------------------------ *)
(* The merger: staging stores.                                         *)
(* ------------------------------------------------------------------ *)

MergeSources == {"f1.json", "f2.json"}

FilePathOrders == {<<"f1.json", "f2.json">>, <<"f2.json", "f1.json">>, <<"f1.json">>}

Platforms == {"qq", "wechat"}

\* the first file is a qq export, the second a qq or a wechat export
PlatformsOfFile(src) == IF src = "f1.json" THEN {"qq"} ELSE Platforms

Resolutions == {"keep1", "keep2", "keepBoth"}

Sender10 == <<"1", "0">>
Sender11 == <<"1", "1">>

TextX == <<"x">>
TextY == <<"y">>
ImgA == <<"[", TU, PIAN, ":", " ", "a", ".", "j", "p", "g", "]">>
ImgB == <<"[", TU, PIAN, ":", " ", "b", ".", "j", "p", "g", "]">>
ImgLong == <<"[", TU, PIAN, ":", " ", "a", "b", ".", "j", "p", "g", "]">>

\* a message as a parser delivers it to the staging callbacks
MMsg(ts, p, c) ==
    [senderPlatformId |-> p, senderAccountName |-> <<"A">>, timestamp |-> ts,
     type |-> 0, content |-> c]

MergeMsgs ==
    { MMsg(100, Sender10, TextX), MMsg(100, Sender10, TextY),
      MMsg(100, Sender10, ImgA), MMsg(100, Sender10, ImgB),
      MMsg(100, Sender11, TextX), MMsg(99, Sender10, TextX),
      MMsg(100, Sender10, ImgLong) }

\* the picture with the longer file name is one of the second file only
MsgsOfFile(src) ==
    IF src = "f1.json"
    THEN { m \in MergeMsgs : m.content # ImgLong }
    ELSE MergeMsgs

\* the rosters a parser delivers: none, a member with a name and a nickname,
\* and the same member with an empty name and an avatar
MergeRosters ==
    { <<>>,
      <<[platformId |-> Sender10, accountName |-> <<"B">>,
         groupNickname |-> <<"N">>]>>,
      <<[platformId |-> Sender10, accountName |-> <<>>,
         avatar |-> <<"V">>]>> }

\* the roster without a name is one of the second file only
RostersOfFile(src) ==
    IF src = "f1.json"
    THEN { r \in MergeRosters : \A i \in 1..Len(r) : r[i].accountName # <<>> }
    ELSE MergeRosters

EmptyTempDb == [meta |-> <<>>, member |-> <<>>, message |-> <<>>]

\* memberSet.has(platformId): the set holds the ids of the rows inserted
memberSetHas(db, platformId) ==
    \E i \in 1..Len(db.member) : db.member[i].platform_id = platformId

\* insertMember.run(platformId, accountName || null, groupNickname || null, ...)
stageMember(db, src, idField, nameField, nickField) ==
    IF memberSetHas(db, src[idField]) THEN db
    ELSE [db EXCEPT !.member = Append(@,
             PutIfTruthy(PutIfTruthy([platform_id |-> src[idField]],
                 "account_name", src, nameField),
                 "group_nickname", src, nickField))]

\* the body of the loop of onMembers: as stageMember, with m.avatar || null
stageRosterMember(db, m) ==
    IF memberSetHas(db, m.platformId) THEN db
    ELSE [db EXCEPT !.member = Append(@,
             PutIfTruthy(PutIfTruthy(PutIfTruthy([platform_id |-> m.platformId],
                 "account_name", m, "accountName"),
                 "group_nickname", m, "groupNickname"),
                 "avatar", m, "avatar"))]

RECURSIVE stageMembers(_, _)
stageMembers(db, members) ==
    IF members = <<>> THEN db
    ELSE stageMembers(stageRosterMember(db, Head(members)), Tail(members))

\* the body of the loop of onMessageBatch
stageMessage(db, msg) ==
    LET db1 == stageMember(db, msg, "senderPlatformId", "senderAccountName",
                           "senderGroupNickname")
        row == PutIfTruthy(PutIfTruthy(PutIfTruthy(
                   [sender_platform_id |-> msg.senderPlatformId,
                    timestamp |-> msg.timestamp, type |-> msg.type],
                   "sender_account_name", msg, "senderAccountName"),
                   "sender_group_nickname", msg, "senderGroupNickname"),
                   "content", msg, "content")
    IN  [db1 EXCEPT !.message = Append(@, row)]

RECURSIVE stageMessages(_, _)
stageMessages(db, batch) ==
    IF batch = <<>> THEN db
    ELSE stageMessages(stageMessage(db, Head(batch)), Tail(batch))

\* TempDbReader.getMembers
getMembers(db) ==
    [i \in 1..Len(db.member) |->
        LET r == db.member[i]
        IN  PutIfTruthy(PutIfTruthy(
                [platformId |-> r.platform_id,
                 accountName |-> IF TextTruthy(r, "account_name")
                                 THEN r.account_name ELSE r.platform_id],
                "groupNickname", r, "group_nickname"),
                "avatar", r, "avatar")]

\* TempDbReader.streamMessages: ORDER BY timestamp ASC, rows of one
\* timestamp in the order of their insertion
parsedMessageOf(r) ==
    PutIfTruthy(PutIfTruthy(
        [senderPlatformId |-> r.sender_platform_id,
         senderAccountName |->
            IF TextTruthy(r, "sender_account_name")
            THEN r.sender_account_name ELSE r.sender_platform_id,
         timestamp |-> r.timestamp,
         type |-> r.type],
        "senderGroupNickname", r, "sender_group_nickname"),
        "content", r, "content")

sortByTimestamp(seq) == StableSort(seq, [i \in 1..Len(seq) |-> seq[i].timestamp])

parsedMessagesOf(rows) == [i \in 1..Len(rows) |-> parsedMessageOf(rows[i])]

streamMessages(db) == parsedMessagesOf(sortByTimestamp(db.message))

\* TempDbReader.getMeta()?.platform
platformOf(db) == IF db.meta = <<>> THEN "unknown" ELSE db.meta[1].platform

MergeInit ==
    /\ mergePc = "staging"
    /\ staged = 0
    /\ stagePc = [s \in MergeSources |-> "none"]
    /\ tempDb = [s \in MergeSources |-> EmptyTempDb]
    /\ checkedPaths = <<>>
    /\ checkResult = [status |-> "none"]
    /\ autoDeduplicatedCount = 0
    /\ mergeParams = [filePaths |-> <<>>, conflictResolutions |-> <<>>,
                       andAnalyze |-> FALSE]
    /\ mergeResult = [status |-> "none"]

\* createTempDatabase, BEGIN TRANSACTION and the onMeta callback
OnStagedMeta(src, platform) ==
    /\ mergePc = "staging"
    /\ stagePc[src] = "none"
    /\ stagePc' = [stagePc EXCEPT ![src] = "members"]
    /\ tempDb' = [tempDb EXCEPT ![src] =
                     [EmptyTempDb EXCEPT !.meta = <<[platform |-> platform]>>]]
    /\ UNCHANGED <<staged, mergePc, checkedPaths, checkResult, autoDeduplicatedCount,
                   mergeParams, mergeResult>>
    /\ UNCHANGED outsideMerge

\* the onMembers callback
OnStagedMembers(src, members) ==
    /\ mergePc = "staging"
    /\ stagePc[src] = "members"
    /\ staged + Len(members) <= MaxStaged
    /\ staged' = staged + Len(members)
    /\ stagePc' = [stagePc EXCEPT ![src] = "messages"]
    /\ tempDb' = [tempDb EXCEPT ![src] = stageMembers(@, members)]
    /\ UNCHANGED <<mergePc, checkedPaths, checkResult, autoDeduplicatedCount,
                   mergeParams, mergeResult>>
    /\ UNCHANGED outsideMerge

\* the onMessageBatch callback
OnStagedMessageBatch(src, batch) ==
    /\ mergePc = "staging"
    /\ stagePc[src] = "messages"
    /\ staged + Len(batch) <= MaxStaged
    /\ staged' = staged + Len(batch)
    /\ tempDb' = [tempDb EXCEPT ![src] = stageMessages(@, batch)]
    /\ UNCHANGED <<mergePc, stagePc, checkedPaths, checkResult,
                   autoDeduplicatedCount, mergeParams, mergeResult>>
    /\ UNCHANGED outsideMerge

\* COMMIT, db.close(), the result with tempDbPath: the file is in the cache
FinishStage(src) ==
    /\ mergePc = "staging"
    /\ stagePc[src] = "messages"
    /\ stagePc' = [stagePc EXCEPT ![src] = "cached"]
    /\ UNCHANGED <<staged, mergePc, tempDb, checkedPaths, checkResult,
                   autoDeduplicatedCount, mergeParams, mergeResult>>
    /\ UNCHANGED outsideMerge

\* the catch: ROLLBACK, db.close(), unlink of the staging store
FailStage(src) ==
    /\ mergePc = "staging"
    /\ stagePc[src] \in {"members", "messages"}
    /\ stagePc' = [stagePc EXCEPT ![src] = "none"]
    /\ tempDb' = [tempDb EXCEPT ![src] = EmptyTempDb]
    /\ UNCHANGED <<staged, mergePc, checkedPaths, checkResult, autoDeduplicatedCount,
                   mergeParams, mergeResult>>
    /\ UNCHANGED outsideMerge

(* ------------------------------------------------------------------ *)
(* The merger: the conflict check and the merge.                       *)
(* ------------------------------------------------------------------ *)

\* tempDbCache.get(filePath) is defined
cached(filePath) == stagePc[filePath] = "cached"

\* the messages of the files, each tagged with path.basename(filePath); the
\* paths of the model are bare file names
tagged(messages, sourceName) ==
    [i \in 1..Len(messages) |-> [msg |-> messages[i], source |-> sourceName]]

allMessagesOf(filePaths) ==
    Flatten([k \in 1..Len(filePaths) |->
        tagged(streamMessages(tempDb[filePaths[k]]), filePaths[k])])

platformsOf(filePaths) ==
    { platformOf(tempDb[filePaths[k]]) : k \in 1..Len(filePaths) }

\* what checkConflictsWithTempDb returns, or the Error it throws: an Error
\* made by new Error(message) has a name and a message and no other property
checkConflictsWithTempDb(filePaths) ==
    IF \E k \in 1..Len(filePaths) : ~cached(filePaths[k])
    THEN [status |-> "error", name |-> "Error", message |-> "no staging store"]
    ELSE IF Cardinality(platformsOf(filePaths)) > 1
    THEN [status |-> "error", name |-> "Error", message |-> "different formats"]
    ELSE Put(detectConflictsInMessages(allMessagesOf(filePaths)), "status", "ok")

\* the ConflictCheckResult of a check that did not throw
returnedBy(r) ==
    IF r.status = "ok"
    THEN [status |-> "ok", conflicts |-> r.conflicts, totalMessages |-> r.totalMessages]
    ELSE r

\* the count in the last log line of detectConflictsInMessages
loggedBy(r) == IF r.status = "ok" THEN r.autoDeduplicatedCount ELSE 0

CheckConflicts(filePaths) ==
    /\ mergePc = "staging"
    /\ \A src \in MergeSources : stagePc[src] \in {"none", "cached"}
    /\ mergePc' = "checked"
    /\ checkedPaths' = filePaths
    /\ checkResult' = returnedBy(checkConflictsWithTempDb(filePaths))
    /\ autoDeduplicatedCount' = loggedBy(checkConflictsWithTempDb(filePaths))
    /\ UNCHANGED <<staged, stagePc, tempDb, mergeParams, mergeResult>>
    /\ UNCHANGED outsideMerge

\* r with field f copied from s[g] when s has the property
PutIfPresent(r, f, s, g) == IF g \in DOMAIN s THEN Put(r, f, s[g]) ELSE r

\* the loop that fills memberMap
RECURSIVE mergeMembers(_, _)
mergeMembers(memberMap, members) ==
    IF members = <<>> THEN memberMap
    ELSE
        LET member == Head(members)
            i == FirstIndex(memberMap, LAMBDA e : e.platformId = member.platformId)
        IN  mergeMembers(
                IF i # 0
                THEN [memberMap EXCEPT ![i] =
                        PutIfTruthy(PutIfTruthy(PutIfTruthy(@,
                            "accountName", member, "accountName"),
                            "groupNickname", member, "groupNickname"),
                            "avatar", member, "avatar")]
                ELSE Append(memberMap,
                        PutIfPresent(PutIfPresent(
                            [platformId |-> member.platformId,
                             accountName |-> member.accountName],
                            "groupNickname", member, "groupNickname"),
                            "avatar", member, "avatar")),
                Tail(members))

\* the ChatLabMessage pushed for msg
exportMessage(msg) ==
    PutIfPresent(PutIfPresent(
        [sender |-> msg.senderPlatformId, accountName |-> msg.senderAccountName,
         timestamp |-> msg.timestamp, type |-> msg.type],
        "groupNickname", msg, "senderGroupNickname"),
        "content", msg, "content")

\* the loop without the test of seenKeys
mergeMessages_KeepAll(messages, seenKeys, mergedMessages) ==
    mergedMessages \o [i \in 1..Len(messages) |-> exportMessage(messages[i])]

\* the loop over the messages of the readers: seenKeys and mergedMessages
RECURSIVE mergeMessages(_, _, _)
mergeMessages(messages, seenKeys, mergedMessages) ==
    IF messages = <<>> THEN mergedMessages
    ELSE LET msg == Head(messages)
             key == getMessageKey(msg)
         IN  IF key \in seenKeys
             THEN mergeMessages(Tail(messages), seenKeys, mergedMessages)
             ELSE mergeMessages(Tail(messages), seenKeys \cup {key},
                                Append(mergedMessages, exportMessage(msg)))

\* the ParsedMessage built from a message of the export for importData
parsedOfExport(m) ==
    PutIfPresent(PutIfPresent(
        [senderPlatformId |-> m.sender, senderAccountName |-> m.accountName,
         timestamp |-> m.timestamp, type |-> m.type],
        "senderGroupNickname", m, "groupNickname"),
        "content", m, "content")

\* the ParseResult handed to importData when andAnalyze is set
parseResultOf(data) ==
    [meta |-> [platform |-> data.platform],
     members |-> data.members,
     messages |-> [i \in 1..Len(data.messages) |-> parsedOfExport(data.messages[i])]]

\* the result with the session importData creates, when one is asked for
withSession(params, data) ==
    IF params.andAnalyze /\ data.status = "success"
    THEN Put(data, "session", parseResultOf(data))
    ELSE data

\* what mergeFilesWithTempDb writes and returns: a success carries the
\* platform, members and messages of the export file written.
\* conflictResolutions is destructured from the parameters and not read again
mergeFilesWithTempDb(params) ==
    LET filePaths == params.filePaths
    IN  IF \E k \in 1..Len(filePaths) :
              ~cached(filePaths[k]) \/ tempDb[filePaths[k]].meta = <<>>
        THEN [status |-> "failure", error |-> "no staging store"]
        ELSE withSession(params,
            [status |-> "success",
             platform |-> IF Cardinality(platformsOf(filePaths)) = 1
                          THEN platformOf(tempDb[filePaths[1]]) ELSE "mixed",
             members |-> mergeMembers(<<>>,
                            Flatten([k \in 1..Len(filePaths) |->
                                getMembers(tempDb[filePaths[k]])])),
             messages |-> sortByTimestamp(mergeMessages(
                            Flatten([k \in 1..Len(filePaths) |->
                                streamMessages(tempDb[filePaths[k]])]),
                            {}, <<>>))])

\* the conflicts a resolution can name: those of the last check
conflictsToResolve ==
    IF checkResult.status = "ok" THEN checkResult.conflicts ELSE <<>>

\* mergeFilesWithTempDb with the resolutions the user chose; the files of a
\* merge are the files the user had checked, in the same order
MergeFiles(filePaths, choice, andAnalyze) ==
    /\ mergePc = "checked"
    /\ mergePc' = "merged"
    /\ mergeParams' =
          [filePaths |-> filePaths,
           conflictResolutions |->
              [n \in 1..Len(conflictsToResolve) |->
                  [id |-> conflictsToResolve[n].id, resolution |-> choice[n]]],
           andAnalyze |-> andAnalyze]
    /\ mergeResult' = mergeFilesWithTempDb(mergeParams')
    /\ UNCHANGED <<staged, stagePc, tempDb, checkedPaths, checkResult,
                   autoDeduplicatedCount>>
    /\ UNCHANGED outsideMerge

\* deleteTempDatabase for every staging store; the merge starts over
ClearStaging ==
    /\ mergePc \in {"checked", "merged"}
    /\ mergePc' = "staging"
    /\ staged' = 0
    /\ stagePc' = [s \in MergeSources |-> "none"]
    /\ tempDb' = [s \in MergeSources |-> EmptyTempDb]
    /\ checkedPaths' = <<>>
    /\ checkResult' = [status |-> "none"]
    /\ autoDeduplicatedCount' = 0
    /\ mergeParams' = [filePaths |-> <<>>, conflictResolutions |-> <<>>,
                       andAnalyze |-> FALSE]
    /\ mergeResult' = [status |-> "none"]
    /\ UNCHANGED outsideMerge

MergeNext ==
    \/ \E src \in MergeSources : \E platform \in PlatformsOfFile(src) :
          OnStagedMeta(src, platform)
    \/ \E src \in MergeSources : \E members \in RostersOfFile(src) :
          OnStagedMembers(src, members)
    \/ \E src \in MergeSources : \E m \in MsgsOfFile(src) :
          OnStagedMessageBatch(src, <<m>>)
    \/ \E src \in MergeSources : FinishStage(src)
    \/ \E src \in MergeSources : FailStage(src)
    \/ \E filePaths \in FilePathOrders : CheckConflicts(filePaths)
    \/ /\ mergePc = "checked"
       /\ \E filePaths \in {checkedPaths},
             choice \in [1..Len(conflictsToResolve) -> Resolutions],
             andAnalyze \in BOOLEAN :
                MergeFiles(filePaths, choice, andAnalyze)
    \/ ClearStaging

(* ------------------------------------------------------------------ *)
(* The worker thread: requests, the message listener, responses.       *)
(* ------------------------------------------------------------------ *)

MaxRequests == 2

\* the keys of asyncHandlers and of syncHandlers that the model sends
AsyncTypes == {"incrementalImport"}
SyncTypes == {"deleteMember", "getMembers"}

\* a type that is a key of neither table
UnknownTypes == {"noSuchType"}
RequestTypes == AsyncTypes \cup SyncTypes \cup UnknownTypes

\* the requests that write to the session of their payload
WriteTypes == {"incrementalImport", "deleteMember"}

SessionIds == {"s1", "s2"}

\* `req_${++requestIdCounter}`
RequestId(n) == n

WorkerInit ==
    /\ requestIdCounter = 0
    /\ pendingRequests = {}
    /\ timers = {}
    /\ toWorker = <<>>
    /\ toMain = <<>>
    /\ awaiting = {}
    /\ listened = {}
    /\ workerPosts = [n \in 1..MaxRequests |-> <<>>]
    /\ settled = [n \in 1..MaxRequests |-> <<>>]

\* sendToWorker and sendToWorkerWithProgress: a new id, an entry of
\* pendingRequests, worker.postMessage, setTimeout; the caller does not wait
\* for earlier requests
SendToWorker(type, sessionId) ==
    /\ requestIdCounter < MaxRequests
    /\ requestIdCounter' = requestIdCounter + 1
    /\ pendingRequests' = pendingRequests \cup {RequestId(requestIdCounter')}
    /\ timers' = timers \cup {RequestId(requestIdCounter')}
    /\ toWorker' = Append(toWorker,
          [id |-> RequestId(requestIdCounter'), type |-> type,
           payload |-> [sessionId |-> sessionId]])
    /\ UNCHANGED <<toMain, awaiting, listened, workerPosts, settled>>
    /\ UNCHANGED outsideWorker

\* the listener without its catch: nothing is posted for a handler that throws
\* and for a type without a handler
syncResponse_NoCatch(type, thrown) ==
    IF type \in SyncTypes /\ ~thrown THEN <<[success |-> TRUE]>> ELSE <<>>

\* the listener past the asyncHandlers lookup: `Unknown message type` is thrown
\* for a type without a handler, and the catch posts the failure of that and of
\* a handler that throws; else the result is posted
syncResponse(type, thrown) ==
    IF type \in SyncTypes /\ ~thrown
    THEN <<[success |-> TRUE]>>
    ELSE <<[success |-> FALSE]>>

\* parentPort.postMessage of the responses of request id
postAll(queue, id, responses) ==
    queue \o [n \in 1..Len(responses) |-> [id |-> id] @@ responses[n]]

\* the listener for a message of a type that is no key of asyncHandlers: the
\* handler runs and the response is posted in the same turn of the event loop
DispatchSync(thrown) ==
    /\ toWorker # <<>>
    /\ Head(toWorker).type \notin AsyncTypes
    /\ toWorker' = Tail(toWorker)
    /\ listened' = listened \cup {Head(toWorker).id}
    /\ LET responses == syncResponse(Head(toWorker).type, thrown)
       IN  /\ toMain' = postAll(toMain, Head(toWorker).id, responses)
           /\ workerPosts' = [workerPosts EXCEPT ![Head(toWorker).id] =
                                 @ \o [n \in 1..Len(responses) |->
                                          IF responses[n].success THEN "success"
                                          ELSE "failure"]]
    /\ UNCHANGED <<requestIdCounter, pendingRequests, timers, awaiting, settled>>
    /\ UNCHANGED outsideWorker

\* the listener for a message of an asynchronous type: the handler starts
\* and the listener stops at `await asyncHandler(payload, id)`; the event
\* loop is free to deliver the next message
DispatchAsync ==
    /\ toWorker # <<>>
    /\ Head(toWorker).type \in AsyncTypes
    /\ toWorker' = Tail(toWorker)
    /\ awaiting' = awaiting \cup {Head(toWorker)}
    /\ listened' = listened \cup {Head(toWorker).id}
    /\ UNCHANGED <<requestIdCounter, pendingRequests, timers, toMain,
                   workerPosts, settled>>
    /\ UNCHANGED outsideWorker

MaxProgress == 1

\* the number of progress messages the running worker has posted
RECURSIVE progressPosted(_)
progressPosted(n) ==
    IF n = 0 THEN 0
    ELSE progressPosted(n - 1)
            + Cardinality({ k \in 1..Len(workerPosts[n]) : workerPosts[n][k] = "progress" })

\* sendProgress(requestId, progress) of a handler that has not settled
SendProgress(request) ==
    /\ request \in awaiting
    /\ progressPosted(MaxRequests) < MaxProgress
    /\ toMain' = Append(toMain, [id |-> request.id, type |-> "progress"])
    /\ workerPosts' = [workerPosts EXCEPT ![request.id] = Append(@, "progress")]
    /\ UNCHANGED <<requestIdCounter, pendingRequests, timers, toWorker,
                   awaiting, listened, settled>>
    /\ UNCHANGED outsideWorker

\* the promise of an asynchronous handler settles: the listener goes on and
\* posts the result, or the error from its catch
ResumeAsync(request, success) ==
    /\ request \in awaiting
    /\ awaiting' = awaiting \ {request}
    /\ toMain' = Append(toMain, [id |-> request.id, success |-> success])
    /\ workerPosts' = [workerPosts EXCEPT ![request.id] =
                          Append(@, IF success THEN "success" ELSE "failure")]
    /\ UNCHANGED <<requestIdCounter, pendingRequests, timers, toWorker,
                   listened, settled>>
    /\ UNCHANGED outsideWorker

\* the message handler without its lookup of the entry: the callback is called
\* whether or not the request is still waiting
onMessage_NoLookup(message) ==
    IF "type" \in DOMAIN message
    THEN [pendingRequests |-> pendingRequests,
          settled |-> [settled EXCEPT ![message.id] = Append(@, "progress")]]
    ELSE [pendingRequests |-> pendingRequests \ {message.id},
          settled |-> [settled EXCEPT ![message.id] =
                         Append(@, IF message.success THEN "resolved" ELSE "rejected")]]

\* worker.on('message') in the manager: nothing for an id without an entry;
\* onProgress for a progress message; else the entry is deleted and the promise
\* resolved or rejected
onMessage(message) ==
    IF message.id \notin pendingRequests
    THEN [pendingRequests |-> pendingRequests, settled |-> settled]
    ELSE IF "type" \in DOMAIN message
    THEN [pendingRequests |-> pendingRequests,
          settled |-> [settled EXCEPT ![message.id] = Append(@, "progress")]]
    ELSE [pendingRequests |-> pendingRequests \ {message.id},
          settled |-> [settled EXCEPT ![message.id] =
                         Append(@, IF message.success THEN "resolved" ELSE "rejected")]]

\* the delivery of the oldest message the worker has posted
OnWorkerMessage ==
    /\ toMain # <<>>
    /\ toMain' = Tail(toMain)
    /\ pendingRequests' = onMessage(Head(toMain)).pendingRequests
    /\ settled' = onMessage(Head(toMain)).settled
    /\ UNCHANGED <<requestIdCounter, timers, toWorker, awaiting, listened,
                   workerPosts>>
    /\ UNCHANGED outsideWorker

\* the setTimeout callback of a request, after 30 s or after timeoutMs
RequestTimeout(id) ==
    /\ id \in timers
    /\ timers' = timers \ {id}
    /\ IF id \in pendingRequests
       THEN /\ pendingRequests' = pendingRequests \ {id}
            /\ settled' = [settled EXCEPT ![id] = Append(@, "timeout")]
       ELSE UNCHANGED <<pendingRequests, settled>>
    /\ UNCHANGED <<requestIdCounter, toWorker, toMain, awaiting, listened,
                   workerPosts>>
    /\ UNCHANGED outsideWorker

\* pending.reject for every entry of pendingRequests
rejectAll(log) ==
    [n \in 1..MaxRequests |->
        IF RequestId(n) \in pendingRequests THEN Append(log[n], "exit") ELSE log[n]]

\* worker.on('exit'): the worker thread is gone with its queue and its
\* handlers, every waiting request is rejected and its entry deleted; the next
\* sendToWorker starts a new worker.  Messages the worker had posted may still
\* be delivered.
OnWorkerExit ==
    /\ listened # {} \/ toWorker # <<>>
    /\ settled' = rejectAll(settled)
    /\ pendingRequests' = {}
    /\ toWorker' = <<>>
    /\ awaiting' = {}
    /\ listened' = {}
    /\ workerPosts' = [n \in 1..MaxRequests |-> <<>>]
    /\ UNCHANGED <<requestIdCounter, timers, toMain>>
    /\ UNCHANGED outsideWorker

WorkerNext ==
    \/ \E type \in AsyncTypes \cup SyncTypes, sessionId \in SessionIds :
          SendToWorker(type, sessionId)
    \/ \E type \in UnknownTypes : SendToWorker(type, "s1")
    \/ \E thrown \in BOOLEAN : DispatchSync(thrown)
    \/ DispatchAsync
    \/ \E request \in awaiting : SendProgress(request)
    \/ \E request \in awaiting, success \in BOOLEAN : ResumeAsync(request, success)
    \/ OnWorkerMessage
    \/ \E id \in timers : RequestTimeout(id)
    \/ OnWorkerExit

(* ------------------------------------------------------------------ *)
(* A parser run (parseV4, parseEchotrace) and the progress of the      *)
(* streamImport that consumes it.                                      *)
(* ------------------------------------------------------------------ *)

MaxFileMsgs == 3

\* `batchSize = 5000` of the parsers
DefaultBatchSize == 5000

BatchSizes == {1, 2, DefaultBatchSize}

\* a message of the file: "ok" is parsed and imported, "skip" is parsed and
\* skipped by the import's validation, "bad" makes processMessage return null
FileMsgKinds == {"ok", "skip", "bad"}

Min(a, b) == IF a <= b THEN a ELSE b

\* createProgress(stage, bytesRead, totalBytes, messagesProcessed, message)
createProgress(stage, read, total, processed) ==
    [stage |-> stage, bytesRead |-> read, totalBytes |-> total,
     messagesProcessed |-> processed]

\* sendProgress(requestId, progress)
sendProgress(channel, progress) ==
    Append(channel, [type |-> "progress", payload |-> progress])

\* onProgress?.(progress) in a parser
onProgressCall(given, channel, progress) ==
    IF given THEN sendProgress(channel, progress) ELSE channel

\* a yielded progress event reaches the onProgress callback of streamImport
forwardProgress(channel, progress) == sendProgress(channel, progress)

\* messageBatch.slice(i, i + batchSize), the whole rest in place of the slice
slice_WholeRest(seq, i, n) == SubSeq(seq, i + 1, Len(seq))

\* messageBatch.slice(i, i + batchSize)
slice(seq, i, n) == SubSeq(seq, i + 1, Min(i + n, Len(seq)))

\* the loop of onMessageBatch of streamImport, as far as the counters and the
\* progress go; st is [insertedCount, sinceCommit, posted]
RECURSIVE countBatch(_, _)
countBatch(st, messages) ==
    IF messages = <<>> THEN st
    ELSE IF Head(messages) = "skip" THEN countBatch(st, Tail(messages))
    ELSE IF st.sinceCommit + 1 >= BATCH_COMMIT_SIZE
    THEN countBatch(
             [insertedCount |-> st.insertedCount + 1, sinceCommit |-> 0,
              posted |-> sendProgress(st.posted,
                  createProgress("importing", 0, 0, st.insertedCount + 1))],
             Tail(messages))
    ELSE countBatch([st EXCEPT !.insertedCount = @ + 1, !.sinceCommit = @ + 1],
                    Tail(messages))

\* the three progress posts after the parse and the posted result
importTail(channel, count) ==
    Append(
        sendProgress(sendProgress(sendProgress(channel,
            createProgress("importing", 0, 0, count)),
            createProgress("importing", 0, 0, count)),
            createProgress("importing", 0, 0, count)),
        [type |-> "result", success |-> TRUE])

ParseInit ==
    /\ parsePc = "start"
    /\ file = <<>>
    /\ batchSize = DefaultBatchSize
    /\ onProgressGiven = FALSE
    /\ totalBytes = 0
    /\ bytesRead = 0
    /\ pos = 0
    /\ messagesProcessed = 0
    /\ batchCollector = <<>>
    /\ messageBatch = <<>>
    /\ batchIndex = 0
    /\ yielded = <<>>
    /\ insertedCount = 0
    /\ sinceCommit = 0
    /\ posted = <<>>
    /\ received = <<>>

\* parse(options) for a file of the given messages, up to the first
\* progress: yielded, then given to onProgress
ParserStart(messages, size, given) ==
    /\ parsePc = "start"
    /\ parsePc' = "meta"
    /\ file' = messages
    /\ batchSize' = size
    /\ onProgressGiven' = given
    /\ totalBytes' = Len(messages) + 1
    /\ yielded' = Append(yielded,
          [type |-> "progress", data |-> createProgress("parsing", 0, totalBytes', 0)])
    /\ posted' = onProgressCall(given,
          forwardProgress(posted, createProgress("parsing", 0, totalBytes', 0)),
          createProgress("parsing", 0, totalBytes', 0))
    /\ UNCHANGED <<bytesRead, pos, messagesProcessed, batchCollector, messageBatch,
                   batchIndex, insertedCount, sinceCommit, received>>
    /\ UNCHANGED outsideParse

YieldMeta ==
    /\ parsePc = "meta"
    /\ parsePc' = "streaming"
    /\ yielded' = Append(yielded, [type |-> "meta"])
    /\ UNCHANGED <<file, batchSize, onProgressGiven, totalBytes, bytesRead, pos,
                   messagesProcessed, batchCollector, messageBatch, batchIndex,
                   insertedCount, sinceCommit, posted, received>>
    /\ UNCHANGED outsideParse

\* readStream.on('data'): a chunk of n bytes
ReadChunk(n) ==
    /\ parsePc = "streaming"
    /\ bytesRead + n <= totalBytes
    /\ bytesRead' = bytesRead + n
    /\ UNCHANGED <<parsePc, file, batchSize, onProgressGiven, totalBytes, pos,
                   messagesProcessed, batchCollector, messageBatch, batchIndex,
                   yielded, insertedCount, sinceCommit, posted, received>>
    /\ UNCHANGED outsideParse

\* pipeline.on('data'): the next message of the file, once its bytes are read
PipelineData ==
    /\ parsePc = "streaming"
    /\ pos < Len(file)
    /\ pos < bytesRead
    /\ pos' = pos + 1
    /\ IF file[pos + 1] = "bad"
       THEN UNCHANGED <<messagesProcessed, batchCollector, messageBatch, posted>>
       ELSE /\ messagesProcessed' = messagesProcessed + 1
            /\ IF Len(batchCollector) + 1 >= batchSize
               THEN /\ messageBatch' = messageBatch \o Append(batchCollector, file[pos + 1])
                    /\ batchCollector' = <<>>
                    /\ posted' = onProgressCall(onProgressGiven, posted,
                          createProgress("parsing", bytesRead, totalBytes,
                                         messagesProcessed'))
               ELSE /\ batchCollector' = Append(batchCollector, file[pos + 1])
                    /\ UNCHANGED <<messageBatch, posted>>
    /\ UNCHANGED <<parsePc, file, batchSize, onProgressGiven, totalBytes, bytesRead,
                   batchIndex, yielded, insertedCount, sinceCommit, received>>
    /\ UNCHANGED outsideParse

\* pipeline.on('end')
PipelineEnd ==
    /\ parsePc = "streaming"
    /\ pos = Len(file)
    /\ bytesRead = totalBytes
    /\ parsePc' = "members"
    /\ messageBatch' = messageBatch \o batchCollector
    /\ UNCHANGED <<file, batchSize, onProgressGiven, totalBytes, bytesRead, pos,
                   messagesProcessed, batchCollector, batchIndex, yielded,
                   insertedCount, sinceCommit, posted, received>>
    /\ UNCHANGED outsideParse

\* pipeline.on('error'): the generator throws, streamImport returns from its
\* catch and the listener posts what it returned
PipelineError ==
    /\ parsePc = "streaming"
    /\ parsePc' = "failed"
    /\ posted' = Append(posted, [type |-> "result", success |-> FALSE])
    /\ UNCHANGED <<file, batchSize, onProgressGiven, totalBytes, bytesRead, pos,
                   messagesProcessed, batchCollector, messageBatch, batchIndex,
                   yielded, insertedCount, sinceCommit, received>>
    /\ UNCHANGED outsideParse

YieldMembers ==
    /\ parsePc = "members"
    /\ parsePc' = "batches"
    /\ batchIndex' = 0
    /\ yielded' = Append(yielded, [type |-> "members"])
    /\ UNCHANGED <<file, batchSize, onProgressGiven, totalBytes, bytesRead, pos,
                   messagesProcessed, batchCollector, messageBatch,
                   insertedCount, sinceCommit, posted, received>>
    /\ UNCHANGED outsideParse

\* one turn of the loop that yields the batches, and onMessageBatch
YieldBatch ==
    /\ parsePc = "batches"
    /\ batchIndex < Len(messageBatch)
    /\ yielded' = Append(yielded,
          [type |-> "messages", data |-> slice(messageBatch, batchIndex, batchSize)])
    /\ batchIndex' = batchIndex + batchSize
    /\ insertedCount' =
          countBatch([insertedCount |-> insertedCount, sinceCommit |-> sinceCommit,
                      posted |-> posted],
                     slice(messageBatch, batchIndex, batchSize)).insertedCount
    /\ sinceCommit' =
          countBatch([insertedCount |-> insertedCount, sinceCommit |-> sinceCommit,
                      posted |-> posted],
                     slice(messageBatch, batchIndex, batchSize)).sinceCommit
    /\ posted' =
          countBatch([insertedCount |-> insertedCount, sinceCommit |-> sinceCommit,
                      posted |-> posted],
                     slice(messageBatch, batchIndex, batchSize)).posted
    /\ UNCHANGED <<parsePc, file, batchSize, onProgressGiven, totalBytes, bytesRead,
                   pos, messagesProcessed, batchCollector, messageBatch, received>>
    /\ UNCHANGED outsideParse

\* the last progress: yielded, then given to onProgress
YieldDoneProgress ==
    /\ parsePc = "batches"
    /\ batchIndex >= Len(messageBatch)
    /\ parsePc' = "doneProgress"
    /\ yielded' = Append(yielded,
          [type |-> "progress",
           data |-> createProgress("done", totalBytes, totalBytes, messagesProcessed)])
    /\ posted' = onProgressCall(onProgressGiven,
          forwardProgress(posted,
              createProgress("done", totalBytes, totalBytes, messagesProcessed)),
          createProgress("done", totalBytes, totalBytes, messagesProcessed))
    /\ UNCHANGED <<file, batchSize, onProgressGiven, totalBytes, bytesRead, pos,
                   messagesProcessed, batchCollector, messageBatch, batchIndex,
                   insertedCount, sinceCommit, received>>
    /\ UNCHANGED outsideParse

YieldDone ==
    /\ parsePc = "doneProgress"
    /\ parsePc' = "parsed"
    /\ yielded' = Append(yielded,
          [type |-> "done", data |-> [messageCount |-> messagesProcessed]])
    /\ UNCHANGED <<file, batchSize, onProgressGiven, totalBytes, bytesRead, pos,
                   messagesProcessed, batchCollector, messageBatch, batchIndex,
                   insertedCount, sinceCommit, posted, received>>
    /\ UNCHANGED outsideParse

\* streamImport after `await streamParseFile`: name history, indexes,
\* checkpoint, each with its progress, and the result the listener posts
FinishImport ==
    /\ parsePc = "parsed"
    /\ parsePc' = "returned"
    /\ posted' = importTail(posted, insertedCount)
    /\ UNCHANGED <<file, batchSize, onProgressGiven, totalBytes, bytesRead, pos,
                   messagesProcessed, batchCollector, messageBatch, batchIndex,
                   yielded, insertedCount, sinceCommit, received>>
    /\ UNCHANGED outsideParse

\* worker.on('message') in the manager: a progress goes to onProgress, a
\* result settles the promise
DeliverPosted ==
    /\ posted # <<>>
    /\ posted' = Tail(posted)
    /\ received' = Append(received, Head(posted))
    /\ UNCHANGED <<parsePc, file, batchSize, onProgressGiven, totalBytes, bytesRead,
                   pos, messagesProcessed, batchCollector, messageBatch, batchIndex,
                   yielded, insertedCount, sinceCommit>>
    /\ UNCHANGED outsideParse

ParseNext ==
    \/ /\ parsePc = "start"
       /\ \E messages \in BoundedSeqs(FileMsgKinds, 0, MaxFileMsgs),
             size \in BatchSizes, given \in BOOLEAN :
                ParserStart(messages, size, given)
    \/ YieldMeta
    \/ \E n \in 1..2 : ReadChunk(n)
    \/ PipelineData
    \/ PipelineEnd
    \/ PipelineError
    \/ YieldMembers
    \/ YieldBatch
    \/ YieldDoneProgress
    \/ YieldDone
    \/ FinishImport
    \/ DeliverPosted

(* ------------------------------------------------------------------ *)
(* Message paging (getMessagesBefore, getMessagesAfter) over a session *)
(* store that imports fill and deleteMember thins out.                 *)
(* ------------------------------------------------------------------ *)

MaxPageMsgs == 3

\* the account name of the author of system messages
SystemName == "U+7CFB U+7EDF U+6D88 U+606F"

\* table member: member 2 has no account name, member 3 is the system author
PageMemberRows ==
    { [id |-> 1, platform_id |-> "10", account_name |-> "alice"],
      [id |-> 2, platform_id |-> "20"],
      [id |-> 3, platform_id |-> "30", account_name |-> SystemName] }

\* what an import can insert into table message, id aside; content is TEXT
\* and may be NULL
PageRowKinds ==
    { [sender_id |-> 1, ts |-> 1, content |-> <<"a">>],
      [sender_id |-> 2, ts |-> 2, content |-> <<"A", "b">>],
      [sender_id |-> 3, ts |-> 1, content |-> <<"a">>],
      [sender_id |-> 1, ts |-> 2] }

\* the optional arguments of a paging request: filter, senderId, keywords
PageOptions ==
    { [sessionId |-> "s1"],
      [sessionId |-> "s1", filter |-> [startTs |-> 2]],
      [sessionId |-> "s1", filter |-> [endTs |-> 1]],
      [sessionId |-> "s1", filter |-> [memberId |-> 1]],
      [sessionId |-> "s1", senderId |-> 1],
      [sessionId |-> "s1", keywords |-> <<>>],
      [sessionId |-> "s1", keywords |-> << <<"a">> >>],
      [sessionId |-> "s1", filter |-> [startTs |-> 1, endTs |-> 2], senderId |-> 2,
       keywords |-> << <<"b">>, <<"x">> >>] }

PageLimits == 0..2

\* the case folding of LIKE, for ASCII letters
Lower(c) == IF c = "A" THEN "a" ELSE IF c = "B" THEN "b" ELSE c

\* text LIKE pattern
RECURSIVE Like(_, _)
Like(pattern, text) ==
    IF pattern = <<>> THEN text = <<>>
    ELSE IF Head(pattern) = "%"
    THEN Like(Tail(pattern), text) \/ (text # <<>> /\ Like(pattern, Tail(text)))
    ELSE IF text = <<>> THEN FALSE
    ELSE IF Head(pattern) = "_" THEN Like(Tail(pattern), Tail(text))
    ELSE Lower(Head(pattern)) = Lower(Head(text)) /\ Like(Tail(pattern), Tail(text))

\* buildTimeFilter(filter) as a test of a row: the bounds that are given,
\* joined by AND
buildTimeFilter(opts, row) ==
    \/ "filter" \notin DOMAIN opts
    \/ /\ "startTs" \in DOMAIN opts.filter => row.ts >= opts.filter.startTs
       /\ "endTs" \in DOMAIN opts.filter => row.ts <= opts.filter.endTs
       /\ "memberId" \in DOMAIN opts.filter => row.sender_id = opts.filter.memberId

\* buildKeywordCondition(keywords) as a test of a row: no condition without
\* keywords, else content LIKE %k% for one of them; NULL is like nothing
buildKeywordCondition(opts, row) ==
    \/ "keywords" \notin DOMAIN opts
    \/ opts.keywords = <<>>
    \/ /\ "content" \in DOMAIN row
       /\ \E k \in 1..Len(opts.keywords) :
             Like(<<"%">> \o opts.keywords[k] \o <<"%">>, row.content)

\* buildSenderCondition(senderId) as a test of a row
buildSenderCondition(opts, row) ==
    "senderId" \notin DOMAIN opts \/ row.sender_id = opts.senderId

\* COALESCE(m.account_name, '') != the system name, m a row of member
SYSTEM_FILTER(m) ==
    (IF "account_name" \in DOMAIN m THEN m.account_name ELSE "") # SystemName

\* FROM message msg JOIN member m ON msg.sender_id = m.id with the
\* conditions of the WHERE clause that follow the cursor's
whereClause(members, opts, row) ==
    /\ \E m \in members : m.id = row.sender_id /\ SYSTEM_FILTER(m)
    /\ buildTimeFilter(opts, row)
    /\ buildKeywordCondition(opts, row)
    /\ buildSenderCondition(opts, row)

\* msg.id < ?, the cursor itself included
beforeCursor_Inclusive(row, beforeId) == row.id <= beforeId

\* msg.id < ?
beforeCursor(row, beforeId) == row.id < beforeId

\* msg.id > ?
afterCursor(row, afterId) == row.id > afterId

\* Array.prototype.reverse, also ORDER BY msg.id DESC of rows in ascending id
RECURSIVE reverse(_)
reverse(seq) ==
    IF seq = <<>> THEN <<>> ELSE Append(reverse(Tail(seq)), Head(seq))

\* LIMIT n
sqlLimit(rows, n) == SubSeq(rows, 1, Min(n, Len(rows)))

\* the member a row of message joins
memberOf(members, row) == CHOOSE m \in members : m.id = row.sender_id

\* sanitizeMessageRow of the joined row
sanitizeMessageRow(members, row) ==
    [id |-> row.id,
     senderPlatformId |-> memberOf(members, row).platform_id,
     content |-> IF "content" \in DOMAIN row THEN row.content ELSE <<>>,
     timestamp |-> row.ts]

sanitizeAll(members, rows) ==
    [i \in 1..Len(rows) |-> sanitizeMessageRow(members, rows[i])]

\* hasMore with rows.length >= limit in place of rows.length > limit
paginate_AtLeast(members, rows, limit) ==
    [messages |-> sanitizeAll(members, sqlLimit(rows, limit)),
     hasMore |-> Len(rows) >= limit]

\* hasMore = rows.length > limit; resultRows = hasMore ? rows.slice(0, limit)
\* : rows
paginate(members, rows, limit) ==
    [messages |-> sanitizeAll(members,
                     IF Len(rows) > limit THEN sqlLimit(rows, limit) ELSE rows),
     hasMore |-> Len(rows) > limit]

rowsBefore(members, messages, beforeId, opts) ==
    reverse(SelectSeq(messages,
        LAMBDA row : beforeCursor(row, beforeId) /\ whereClause(members, opts, row)))

rowsAfter(members, messages, afterId, opts) ==
    SelectSeq(messages,
        LAMBDA row : afterCursor(row, afterId) /\ whereClause(members, opts, row))

reverseMessages(result) == [result EXCEPT !.messages = reverse(@)]

getMessagesBefore(members, messages, beforeId, limit, opts) ==
    IF opts.sessionId # "s1" THEN [messages |-> <<>>, hasMore |-> FALSE]
    ELSE reverseMessages(
             paginate(members,
                      sqlLimit(rowsBefore(members, messages, beforeId, opts), limit + 1),
                      limit))

getMessagesAfter(members, messages, afterId, limit, opts) ==
    IF opts.sessionId # "s1" THEN [messages |-> <<>>, hasMore |-> FALSE]
    ELSE paginate(members,
                  sqlLimit(rowsAfter(members, messages, afterId, opts), limit + 1),
                  limit)

\* SELECT id FROM message WHERE id < ? ORDER BY id DESC LIMIT ?
contextBefore(messages, messageId, contextSize) ==
    sqlLimit(reverse(SelectSeq(messages, LAMBDA row : row.id < messageId)), contextSize)

\* the rows after the seed left out
contextAfter_None(messages, messageId, contextSize) == <<>>

\* SELECT id FROM message WHERE id > ? ORDER BY id ASC LIMIT ?
contextAfter(messages, messageId, contextSize) ==
    sqlLimit(SelectSeq(messages, LAMBDA row : row.id > messageId), contextSize)

idsOf(rows) == { rows[i].id : i \in 1..Len(rows) }

\* the loop over the seeds that fills the Set contextIds
RECURSIVE contextIdsOf(_, _, _)
contextIdsOf(messages, ids, contextSize) ==
    IF ids = <<>> THEN {}
    ELSE {Head(ids)}
         \cup idsOf(contextBefore(messages, Head(ids), contextSize))
         \cup idsOf(contextAfter(messages, Head(ids), contextSize))
         \cup contextIdsOf(messages, Tail(ids), contextSize)

\* a single id is made an array of one; WHERE msg.id IN (...) ORDER BY msg.id
getMessageContext(members, messages, ids, contextSize, sessionId) ==
    IF sessionId # "s1" \/ ids = <<>> THEN <<>>
    ELSE sanitizeAll(members,
             SelectSeq(messages,
                 LAMBDA row : /\ row.id \in contextIdsOf(messages, ids, contextSize)
                              /\ \E m \in members : m.id = row.sender_id))

\* the seeds of a context request: message ids, present or not
ContextSeeds ==
    {<<>>} \cup { <<i>> : i \in 1..(MaxPageMsgs + 1) }
           \cup { <<i, j>> : i, j \in 1..MaxPageMsgs }

NoRequest == [direction |-> "none"]
NoResult == [messages |-> <<>>, hasMore |-> FALSE]

PagingInit ==
    /\ pageMember = PageMemberRows
    /\ pageMessage = <<>>
    /\ pageNextId = 1
    /\ pageRequest = NoRequest
    /\ pageResult = NoResult

\* insertMessage.run of an import, for a sender that is a member
InsertMessage(kind) ==
    /\ pageRequest = NoRequest
    /\ pageNextId <= MaxPageMsgs
    /\ \E m \in pageMember : m.id = kind.sender_id
    /\ pageMessage' = Append(pageMessage, Put(kind, "id", pageNextId))
    /\ pageNextId' = pageNextId + 1
    /\ UNCHANGED <<pageMember, pageRequest, pageResult>>
    /\ UNCHANGED outsidePaging

\* deleteMember(sessionId, memberId): the member's messages, then its row
DeleteMember(memberId) ==
    /\ pageRequest = NoRequest
    /\ \E m \in pageMember : m.id = memberId
    /\ pageMessage' = SelectSeq(pageMessage, LAMBDA row : row.sender_id # memberId)
    /\ pageMember' = { m \in pageMember : m.id # memberId }
    /\ UNCHANGED <<pageNextId, pageRequest, pageResult>>
    /\ UNCHANGED outsidePaging

\* the handler of the worker and the post of what it returned; one response
\* is in flight at a time
GetMessagesBefore(beforeId, limit, opts) ==
    /\ pageRequest = NoRequest
    /\ pageRequest' = [direction |-> "before", cursor |-> beforeId, limit |-> limit,
                       opts |-> opts]
    /\ pageResult' = getMessagesBefore(pageMember, pageMessage, beforeId, limit, opts)
    /\ UNCHANGED <<pageMember, pageMessage, pageNextId>>
    /\ UNCHANGED outsidePaging

GetMessagesAfter(afterId, limit, opts) ==
    /\ pageRequest = NoRequest
    /\ pageRequest' = [direction |-> "after", cursor |-> afterId, limit |-> limit,
                       opts |-> opts]
    /\ pageResult' = getMessagesAfter(pageMember, pageMessage, afterId, limit, opts)
    /\ UNCHANGED <<pageMember, pageMessage, pageNextId>>
    /\ UNCHANGED outsidePaging

GetMessageContext(ids, contextSize, sessionId) ==
    /\ pageRequest = NoRequest
    /\ pageRequest' = [direction |-> "context", seeds |-> ids, size |-> contextSize,
                       sessionId |-> sessionId]
    /\ pageResult' = [messages |-> getMessageContext(pageMember, pageMessage, ids,
                                                      contextSize, sessionId)]
    /\ UNCHANGED <<pageMember, pageMessage, pageNextId>>
    /\ UNCHANGED outsidePaging

\* worker.on('message') in the manager: the response settles the promise
DeliverPage ==
    /\ pageRequest # NoRequest
    /\ pageRequest' = NoRequest
    /\ pageResult' = NoResult
    /\ UNCHANGED <<pageMember, pageMessage, pageNextId>>
    /\ UNCHANGED outsidePaging

PagingNext ==
    \/ \E kind \in PageRowKinds : InsertMessage(kind)
    \/ \E memberId \in 1..3 : DeleteMember(memberId)
    \/ \E beforeId \in 0..(MaxPageMsgs + 1), limit \in PageLimits,
          opts \in PageOptions \cup {[sessionId |-> "s0"]} :
             GetMessagesBefore(beforeId, limit, opts)
    \/ \E afterId \in 0..(MaxPageMsgs + 1), limit \in PageLimits,
          opts \in PageOptions \cup {[sessionId |-> "s0"]} :
             GetMessagesAfter(afterId, limit, opts)
    \/ \E ids \in ContextSeeds, contextSize \in PageLimits, sessionId \in {"s0", "s1"} :
          GetMessageContext(ids, contextSize, sessionId)
    \/ DeliverPage

(* ------------------------------------------------------------------ *)
(* The distributions by hour, weekday and month (getHourlyActivity,    *)
(* getWeekdayActivity, getMonthlyActivity). A ts of this store counts   *)
(* hours since 1970-01-01T00:00Z: the fields strftime extracts and the  *)
(* range of dates it accepts depend on the seconds through their hour   *)
(* alone. The zone of the process is UTC.                               *)
(* ------------------------------------------------------------------ *)

MaxStatMsgs == 3

\* what the import stores as ts: midnight and 13:00 of Thursday 1970-01-01,
\* 13:00 of Sunday 1970-02-01, and 1700000000000, a time in milliseconds,
\* as it is read when taken for seconds
StatTimes == {0, 13, 757, 472222222}

\* the rows of message, id aside: by member 1 or by the system author
StatRowKinds == [sender_id : {1, 3}, ts : StatTimes]

StatFilters ==
    { [sessionId |-> "s1"],
      [sessionId |-> "s1", filter |-> [startTs |-> 13]],
      [sessionId |-> "s1", filter |-> [endTs |-> 13]],
      [sessionId |-> "s1", filter |-> [memberId |-> 1]],
      [sessionId |-> "s0"] }

\* the date functions of SQLite give NULL outside of the Julian day numbers
\* 0 .. 5373484.5, which is from -58574100 h to the end of year 9999
dateIsValid(ts) == ts >= -58574100 /\ ts <= 70389527

\* strftime('%H', ts, 'unixepoch', 'localtime') as an integer
hourOf(ts) == ts % 24

dayOf(ts) == ts \div 24

\* strftime('%w', ...): 0 is Sunday, 1970-01-01 was a Thursday; 0 becomes 7
weekdayOf(ts) ==
    IF (dayOf(ts) + 4) % 7 = 0 THEN 7 ELSE (dayOf(ts) + 4) % 7

\* the day of the 400-year era of a day, eras beginning on a 1 March
dayOfEra(day) == (day + 719468) % 146097

yearOfEra(doe) ==
    (doe - (doe \div 1460) + (doe \div 36524) - (doe \div 146096)) \div 365

\* the day of the year that begins on 1 March
dayOfYear(doe) ==
    doe - (365 * yearOfEra(doe) + (yearOfEra(doe) \div 4) - (yearOfEra(doe) \div 100))

\* strftime('%m', ...) as an integer
monthOf(ts) ==
    IF (5 * dayOfYear(dayOfEra(dayOf(ts))) + 2) \div 153 < 10
    THEN ((5 * dayOfYear(dayOfEra(dayOf(ts))) + 2) \div 153) + 3
    ELSE ((5 * dayOfYear(dayOfEra(dayOf(ts))) + 2) \div 153) - 9

\* the expression a distribution groups by
bucketOf(unit, ts) ==
    IF unit = "hour" THEN hourOf(ts)
    ELSE IF unit = "weekday" THEN weekdayOf(ts)
    ELSE monthOf(ts)

\* buildSystemMessageFilter(clause): the clause of the time filter and the
\* exclusion of the system author
buildSystemMessageFilter(opts, row) ==
    /\ buildTimeFilter(opts, row)
    /\ SYSTEM_FILTER(memberOf(PageMemberRows, row))

\* FROM message msg JOIN member m ... WHERE: the positions of the rows selected
selectedRows(messages, opts) ==
    { i \in 1..Len(messages) : buildSystemMessageFilter(opts, messages[i]) }

\* GROUP BY, COUNT(*): one row per value of the expression; a row without
\* the field is the group of NULL
groupRows(messages, opts, unit) ==
    { [bucket |-> b,
       messageCount |-> Cardinality({ i \in selectedRows(messages, opts) :
                           /\ dateIsValid(messages[i].ts)
                           /\ bucketOf(unit, messages[i].ts) = b })] :
        b \in { bucketOf(unit, messages[i].ts) :
                  i \in { j \in selectedRows(messages, opts) :
                            dateIsValid(messages[j].ts) } } }
    \cup
    { [messageCount |-> Cardinality({ j \in selectedRows(messages, opts) :
                                        ~dateIsValid(messages[j].ts) })] :
        x \in { j \in selectedRows(messages, opts) : ~dateIsValid(messages[j].ts) } }

\* rows.find((r) => r.hour === h), then found ? found.messageCount : 0
foundCount(rows, b) ==
    IF \E r \in rows : "bucket" \in DOMAIN r /\ r.bucket = b
    THEN (CHOOSE r \in rows : "bucket" \in DOMAIN r /\ r.bucket = b).messageCount
    ELSE 0

\* the loop over the buckets from..to that fills result
fillBuckets(rows, from, to) ==
    [k \in 1..(to - from + 1) |->
        [bucket |-> from + k - 1, messageCount |-> foundCount(rows, from + k - 1)]]

getHourlyActivity(messages, opts) ==
    IF opts.sessionId # "s1" THEN <<>>
    ELSE fillBuckets(groupRows(messages, opts, "hour"), 0, 23)

getWeekdayActivity(messages, opts) ==
    IF opts.sessionId # "s1" THEN <<>>
    ELSE fillBuckets(groupRows(messages, opts, "weekday"), 1, 7)

getMonthlyActivity(messages, opts) ==
    IF opts.sessionId # "s1" THEN <<>>
    ELSE fillBuckets(groupRows(messages, opts, "month"), 1, 12)

StatsInit ==
    /\ statMessage = <<>>
    /\ statRequest = NoRequest
    /\ statResult = <<>>

\* insertMessage.run of an import: the timestamp is stored as it was parsed
StatInsertMessage(kind) ==
    /\ statRequest = NoRequest
    /\ Len(statMessage) < MaxStatMsgs
    /\ statMessage' = Append(statMessage, kind)
    /\ UNCHANGED <<statRequest, statResult>>
    /\ UNCHANGED outsideStats

GetHourlyActivity(opts) ==
    /\ statRequest = NoRequest
    /\ statRequest' = [unit |-> "hour", opts |-> opts]
    /\ statResult' = getHourlyActivity(statMessage, opts)
    /\ UNCHANGED statMessage
    /\ UNCHANGED outsideStats

GetWeekdayActivity(opts) ==
    /\ statRequest = NoRequest
    /\ statRequest' = [unit |-> "weekday", opts |-> opts]
    /\ statResult' = getWeekdayActivity(statMessage, opts)
    /\ UNCHANGED statMessage
    /\ UNCHANGED outsideStats

GetMonthlyActivity(opts) ==
    /\ statRequest = NoRequest
    /\ statRequest' = [unit |-> "month", opts |-> opts]
    /\ statResult' = getMonthlyActivity(statMessage, opts)
    /\ UNCHANGED statMessage
    /\ UNCHANGED outsideStats

\* worker.on('message') in the manager: the response settles the promise
DeliverStats ==
    /\ statRequest # NoRequest
    /\ statRequest' = NoRequest
    /\ statResult' = <<>>
    /\ UNCHANGED statMessage
    /\ UNCHANGED outsideStats

StatsNext ==
    \/ \E kind \in StatRowKinds : StatInsertMessage(kind)
    \/ \E opts \in StatFilters : GetHourlyActivity(opts)
    \/ \E opts \in StatFilters : GetWeekdayActivity(opts)
    \/ \E opts \in StatFilters : GetMonthlyActivity(opts)
    \/ DeliverStats

(* ------------------------------------------------------------------ *)
(* Deleting a session: the handler of chat:deleteSession in the shell,  *)
(* the worker's cache of open handles, and the files of the stores.     *)
(* ------------------------------------------------------------------ *)

MaxQueries == 3

\* openDatabase(sessionId) of the worker: the cached handle, or a handle
\* opened on the store file and kept, or null when there is no file
openDatabase(cache, onDisk, sessionId) ==
    IF sessionId \in cache THEN cache
    ELSE IF sessionId \in onDisk THEN cache \cup {sessionId}
    ELSE cache

\* closeDatabase(sessionId) of the worker: closes and forgets the handle
closeDatabase(cache, sessionId) == cache \ {sessionId}

\* deleteSession(sessionId): unlinks the store file and its sidecars
deleteSession(onDisk, sessionId) == onDisk \ {sessionId}

DeleteInit ==
    /\ delPc = "idle"
    /\ delTarget = "s1"
    /\ delQueue = <<>>
    /\ closeAnswered = FALSE
    /\ dbCache = {}
    /\ sessionFiles = SessionIds
    /\ queriesSent = 0

\* chat:deleteSession up to its await: worker.closeDatabase(sessionId)
\* posts the request; one closeDatabase is in the queue at a time
StartDelete(sessionId) ==
    /\ delPc = "idle"
    /\ sessionId \in sessionFiles
    /\ \A k \in 1..Len(delQueue) : delQueue[k].type # "closeDatabase"
    /\ delPc' = "closing"
    /\ delTarget' = sessionId
    /\ delQueue' = Append(delQueue, [type |-> "closeDatabase", sessionId |-> sessionId])
    /\ closeAnswered' = FALSE
    /\ UNCHANGED <<dbCache, sessionFiles, queriesSent>>
    /\ UNCHANGED outsideDelete

\* another handler of the shell sends a query of a session to the worker
SendQuery(sessionId) ==
    /\ queriesSent < MaxQueries
    /\ queriesSent' = queriesSent + 1
    /\ delQueue' = Append(delQueue, [type |-> "getMembers", sessionId |-> sessionId])
    /\ UNCHANGED <<delPc, delTarget, closeAnswered, dbCache, sessionFiles>>
    /\ UNCHANGED outsideDelete

\* the listener of the worker takes the next request and posts its response
HandleRequest ==
    /\ delQueue # <<>>
    /\ delQueue' = Tail(delQueue)
    /\ IF Head(delQueue).type = "closeDatabase"
       THEN /\ dbCache' = closeDatabase(dbCache, Head(delQueue).sessionId)
            /\ closeAnswered' = TRUE
       ELSE /\ dbCache' = openDatabase(dbCache, sessionFiles, Head(delQueue).sessionId)
            /\ UNCHANGED closeAnswered
    /\ UNCHANGED <<delPc, delTarget, sessionFiles, queriesSent>>
    /\ UNCHANGED outsideDelete

\* the response resumes the handler: databaseCore.deleteSession(sessionId).
\* With the file open in the worker, unlinkSync removes it or, where open
\* files cannot be removed, throws and deleteSession returns false
FinishDelete(unlinked) ==
    /\ delPc = "closing"
    /\ closeAnswered
    /\ closeAnswered' = FALSE
    /\ IF unlinked \/ delTarget \notin dbCache
       THEN /\ sessionFiles' = deleteSession(sessionFiles, delTarget)
            /\ delPc' = "done"
       ELSE /\ delPc' = "failed"
            /\ UNCHANGED sessionFiles
    /\ UNCHANGED <<delTarget, delQueue, dbCache, queriesSent>>
    /\ UNCHANGED outsideDelete

\* the timeout of the closeDatabase request rejects: the handler returns
\* false and nothing is removed
DeleteTimeout ==
    /\ delPc = "closing"
    /\ ~closeAnswered
    /\ delPc' = "failed"
    /\ UNCHANGED <<delTarget, delQueue, closeAnswered, dbCache, sessionFiles, queriesSent>>
    /\ UNCHANGED outsideDelete

\* the handler has returned; the next delete can begin
ReturnDelete ==
    /\ delPc \in {"done", "failed"}
    /\ delPc' = "idle"
    /\ closeAnswered' = FALSE
    /\ UNCHANGED <<delTarget, delQueue, dbCache, sessionFiles, queriesSent>>
    /\ UNCHANGED outsideDelete

DeleteNext ==
    \/ \E sessionId \in SessionIds : StartDelete(sessionId)
    \/ \E sessionId \in SessionIds : SendQuery(sessionId)
    \/ HandleRequest
    \/ \E unlinked \in BOOLEAN : FinishDelete(unlinked)
    \/ DeleteTimeout
    \/ ReturnDelete

(* ------------------------------------------------------------------ *)
(* The staging stores as files: created by streamParseFileInfo, swept   *)
(* on application start, removed after a merge.                         *)
(* ------------------------------------------------------------------ *)

\* generateTempDbPath(sourceFilePath) and the sidecars SQLite keeps beside it
TempFile(src, ext) == [prefix |-> "merge_", stem |-> src, ext |-> ext]

Sidecars == {".db-wal", ".db-shm"}

\* a file of the directory that is no staging store
OtherFile == [prefix |-> "export_", stem |-> "f1.json", ext |-> ".db"]

\* deleteTempDatabase(dbPath), the sidecars left behind
deleteTempDatabase_DbOnly(dir, src) == dir \ {TempFile(src, ".db")}

\* deleteTempDatabase(dbPath): the store, its -wal and its -shm
deleteTempDatabase(dir, src) ==
    dir \ {TempFile(src, ".db"), TempFile(src, ".db-wal"), TempFile(src, ".db-shm")}

RECURSIVE deleteTempDatabases(_, _)
deleteTempDatabases(dir, sources) ==
    IF sources = {} THEN dir
    ELSE deleteTempDatabases(deleteTempDatabase(dir, CHOOSE s \in sources : TRUE),
                             sources \ {CHOOSE s \in sources : TRUE})

\* cleanupAllTempDatabases(): every file merge_*.db of the directory
cleanupAllTempDatabases(dir) ==
    deleteTempDatabases(dir,
        { f.stem : f \in { g \in dir : g.prefix = "merge_" /\ g.ext = ".db" } })

StagingInit ==
    /\ appPc = "stopped"
    /\ tempDir = {OtherFile}
    /\ tempDbCache = {}
    /\ lastMerge = [status |-> "none"]

\* mainIpcMain: initMergeModule() sweeps the directory; the cache is new
AppStart ==
    /\ appPc = "stopped"
    /\ appPc' = "running"
    /\ tempDir' = cleanupAllTempDatabases(tempDir)
    /\ tempDbCache' = {}
    /\ lastMerge' = [status |-> "none"]
    /\ UNCHANGED outsideStaging

\* the process ends, by quitting or by a crash; the files stay
AppExit ==
    /\ appPc = "running"
    /\ appPc' = "stopped"
    /\ tempDbCache' = {}
    /\ lastMerge' = [status |-> "none"]
    /\ UNCHANGED tempDir
    /\ UNCHANGED outsideStaging

\* merge:parseFileInfo: streamParseFileInfo writes the staging store of a
\* source and the handler caches its path; a failed parse unlinks the store.
\* The store is a new file: what the last merge returned is about others
StageFile(src, sidecars, success) ==
    /\ appPc = "running"
    /\ src \notin tempDbCache
    /\ IF success
       THEN /\ tempDir' = tempDir \cup {TempFile(src, ".db")}
                                  \cup { TempFile(src, ext) : ext \in sidecars }
            /\ tempDbCache' = tempDbCache \cup {src}
       ELSE UNCHANGED <<tempDir, tempDbCache>>
    /\ lastMerge' = [status |-> "none"]
    /\ UNCHANGED appPc
    /\ UNCHANGED outsideStaging

\* merge:mergeFiles: mergeFilesWithTempDb, and after a success the staging
\* stores of the cache are deleted and the cache is cleared
MergeFilesHandler(sources, success) ==
    /\ appPc = "running"
    /\ sources # {}
    /\ sources \subseteq tempDbCache
    /\ lastMerge' = [status |-> IF success THEN "success" ELSE "failure",
                     sources |-> sources]
    /\ IF success
       THEN /\ tempDir' = deleteTempDatabases(tempDir, tempDbCache)
            /\ tempDbCache' = {}
       ELSE UNCHANGED <<tempDir, tempDbCache>>
    /\ UNCHANGED appPc
    /\ UNCHANGED outsideStaging

\* merge:clearCache
ClearCache ==
    /\ appPc = "running"
    /\ tempDbCache # {}
    /\ tempDir' = deleteTempDatabases(tempDir, tempDbCache)
    /\ tempDbCache' = {}
    /\ UNCHANGED <<appPc, lastMerge>>
    /\ UNCHANGED outsideStaging

StagingNext ==
    \/ AppStart
    \/ AppExit
    \/ \E src \in MergeSources, sidecars \in SUBSET Sidecars, success \in BOOLEAN :
          StageFile(src, sidecars, success)
    \/ \E sources \in SUBSET MergeSources, success \in BOOLEAN :
          MergeFilesHandler(sources, success)
    \/ ClearCache

(* ------------------------------------------------------------------ *)
(* streamImport and its preprocessor (streamImport.ts 202-246,         *)
(* 345, 629-656).  A large file of a format that has a preprocessor is *)
(* first reduced into a temporary file, which is imported in place of  *)
(* the original and removed by preprocessor.cleanup in finally.        *)
(* ------------------------------------------------------------------ *)

MaxImports == 4

NoTempFile == 0

PreInit ==
    /\ prePc = "idle"
    /\ preRun = 0
    /\ tempFiles = {}
    /\ tempFilePath = NoTempFile
    /\ preResult = "none"

\* Preprocessor.cleanup(tempPath): removes the temporary file
cleanup(onDisk, tempPath) == onDisk \ {tempPath}

\* const db = createDatabaseWithoutIndexes(sessionId) and the db.prepare
\* statements, which stand between the preprocessing and the try block: an
\* exception here leaves streamImport at once, past catch and finally.
createDatabaseWithoutIndexes(created) ==
    IF created THEN [pc |-> "parsing", result |-> "none"]
    ELSE [pc |-> "returned", result |-> "rejected"]

\* streamImport up to its first await: detectFormat, getPreprocessor and
\* needsPreprocess; without preprocessing the store is created at once.
BeginImport(recognised, needsPreprocess, created) ==
    /\ prePc \in {"idle", "returned"}
    /\ preRun < MaxImports
    /\ preRun' = preRun + 1
    /\ tempFilePath' = NoTempFile
    /\ IF ~recognised
       THEN prePc' = "returned" /\ preResult' = "failure"
       ELSE IF needsPreprocess
       THEN prePc' = "preprocess" /\ preResult' = "none"
       ELSE LET c == createDatabaseWithoutIndexes(created)
            IN  prePc' = c.pc /\ preResult' = c.result
    /\ UNCHANGED tempFiles
    /\ UNCHANGED outsidePreprocess

\* await preprocessor.preprocess(...) settles.  Resolved: the temporary file is
\* written, tempFilePath holds it, and the store is created.  Rejected: the
\* catch returns the failure with tempFilePath still null; a file the
\* preprocessor had begun (partial) stays unless the preprocessor removed it.
PreprocessSettled(resolved, partial, created) ==
    /\ prePc = "preprocess"
    /\ IF resolved
       THEN LET c == createDatabaseWithoutIndexes(created)
            IN  /\ tempFiles' = tempFiles \cup {preRun}
                /\ tempFilePath' = preRun
                /\ prePc' = c.pc
                /\ preResult' = c.result
       ELSE /\ tempFiles' = IF partial THEN tempFiles \cup {preRun} ELSE tempFiles
            /\ tempFilePath' = NoTempFile
            /\ prePc' = "returned"
            /\ preResult' = "failure"
    /\ UNCHANGED preRun
    /\ UNCHANGED outsidePreprocess

\* the try block: parsing and persistence end in success or in the catch;
\* finally closes the store and cleans up the temporary file
ImportSettled(succeeded) ==
    /\ prePc = "parsing"
    /\ prePc' = "returned"
    /\ preResult' = IF succeeded THEN "success" ELSE "failure"
    /\ tempFiles' = IF tempFilePath # NoTempFile
                    THEN cleanup(tempFiles, tempFilePath)
                    ELSE tempFiles
    /\ UNCHANGED <<preRun, tempFilePath>>
    /\ UNCHANGED outsidePreprocess

PreprocessNext ==
    \/ \E recognised \in BOOLEAN, needsPreprocess \in BOOLEAN, created \in BOOLEAN :
           BeginImport(recognised, needsPreprocess, created)
    \/ \E resolved \in BOOLEAN, partial \in BOOLEAN, created \in BOOLEAN :
           PreprocessSettled(resolved, partial, created)
    \/ \E succeeded \in BOOLEAN : ImportSettled(succeeded)

(* ------------------------------------------------------------------ *)
(* The session index of one session: built on request from the         *)
(* messages, and the two operations that change the messages, the      *)
(* incremental import and the deletion of a member.                    *)
(* ------------------------------------------------------------------ *)

MaxIndexMsgs == 3

\* the default gap threshold, in seconds
DefaultGapThreshold == 1800

GapThresholds == {600, DefaultGapThreshold}

\* the members and the timestamps of the messages of the model
IndexSenders == {1, 2}
IndexTimes == {0, 1000, 5000}

IndexInit ==
    /\ ixPc = "idle"
    /\ ixMessage = <<>>
    /\ ixNextId = 1
    /\ sessionIndex = <<>>
    /\ indexGap = DefaultGapThreshold

\* the rows in the order of ts, then id
RECURSIVE orderByTs(_)
orderByTs(rows) ==
    IF rows = {} THEN <<>>
    ELSE LET first == CHOOSE r \in rows :
                         \A q \in rows : r.ts < q.ts \/ (r.ts = q.ts /\ r.id <= q.id)
         IN  <<first>> \o orderByTs(rows \ {first})

\* the scan: a message more than gapThreshold after the one before it begins
\* a new entry, any other one extends the last entry
RECURSIVE scanSessions(_, _, _)
scanSessions(ordered, entries, gapThreshold) ==
    IF ordered = <<>> THEN entries
    ELSE LET m == Head(ordered)
             n == Len(entries)
         IN  IF n = 0 \/ m.ts - entries[n].end_ts > gapThreshold
             THEN scanSessions(Tail(ordered),
                     Append(entries, [id |-> n + 1, start_ts |-> m.ts, end_ts |-> m.ts,
                                      message_count |-> 1, first_message_id |-> m.id]),
                     gapThreshold)
             ELSE scanSessions(Tail(ordered),
                     [entries EXCEPT ![n].end_ts = m.ts,
                                     ![n].message_count = @ + 1],
                     gapThreshold)

\* generateSessions(sessionId, gapThreshold): the index of the messages as
\* they are, in place of the index before
generateSessions(rows, gapThreshold) ==
    scanSessions(orderByTs({ rows[i] : i \in 1..Len(rows) }), <<>>, gapThreshold)

\* deleteMember: DELETE FROM message WHERE sender_id = ?, then the name history
\* and the member row; no other table is written
deleteMember(rows, memberId) ==
    SelectSeq(rows, LAMBDA r : r.sender_id # memberId)

\* session:generate
SessionGenerate(gapThreshold) ==
    /\ ixPc = "idle"
    /\ sessionIndex' = generateSessions(ixMessage, gapThreshold)
    /\ indexGap' = gapThreshold
    /\ UNCHANGED <<ixPc, ixMessage, ixNextId>>
    /\ UNCHANGED outsideIndex

\* session:clear
SessionClear ==
    /\ ixPc = "idle"
    /\ sessionIndex # <<>>
    /\ sessionIndex' = <<>>
    /\ UNCHANGED <<ixPc, ixMessage, ixNextId, indexGap>>
    /\ UNCHANGED outsideIndex

\* chat:deleteMember: closeDatabase, then deleteMember in the worker
ChatDeleteMember(memberId) ==
    /\ ixPc = "idle"
    /\ ixMessage' = deleteMember(ixMessage, memberId)
    /\ UNCHANGED <<ixPc, ixNextId, sessionIndex, indexGap>>
    /\ UNCHANGED outsideIndex

\* chat:incrementalImport up to the result of worker.incrementalImport: on
\* success the new message is in the store; a failure changes nothing
ChatIncrementalImport(success, sender, ts) ==
    /\ ixPc = "idle"
    /\ IF success
       THEN /\ Len(ixMessage) < MaxIndexMsgs
            /\ ixNextId <= MaxIndexMsgs + 1
            /\ ixMessage' = Append(ixMessage, [id |-> ixNextId, sender_id |-> sender, ts |-> ts])
            /\ ixNextId' = ixNextId + 1
            /\ ixPc' = "imported"
       ELSE UNCHANGED <<ixPc, ixMessage, ixNextId>>
    /\ UNCHANGED <<sessionIndex, indexGap>>
    /\ UNCHANGED outsideIndex

\* the rest of chat:incrementalImport: await worker.generateSessions(sessionId),
\* whose failure is logged and no more
RegenerateSessions(generated) ==
    /\ ixPc = "imported"
    /\ ixPc' = "idle"
    /\ IF generated
       THEN /\ sessionIndex' = generateSessions(ixMessage, DefaultGapThreshold)
            /\ indexGap' = DefaultGapThreshold
       ELSE UNCHANGED <<sessionIndex, indexGap>>
    /\ UNCHANGED <<ixMessage, ixNextId>>
    /\ UNCHANGED outsideIndex

IndexNext ==
    \/ \E gapThreshold \in GapThresholds : SessionGenerate(gapThreshold)
    \/ SessionClear
    \/ \E memberId \in IndexSenders : ChatDeleteMember(memberId)
    \/ \E success \in BOOLEAN, sender \in IndexSenders, ts \in IndexTimes :
          ChatIncrementalImport(success, sender, ts)
    \/ \E generated \in BOOLEAN : RegenerateSessions(generated)

Init ==
    /\ ImportInit /\ MergeInit /\ WorkerInit /\ ParseInit /\ PagingInit
    /\ StatsInit /\ DeleteInit /\ StagingInit /\ PreInit /\ IndexInit

SpecImport == Init /\ [][ImportNext]_vars

SpecMerge == Init /\ [][MergeNext]_vars

SpecWorker == Init /\ [][WorkerNext]_vars

SpecParse == Init /\ [][ParseNext]_vars

SpecPaging == Init /\ [][PagingNext]_vars

SpecStats == Init /\ [][StatsNext]_vars

SpecDelete == Init /\ [][DeleteNext]_vars

SpecStaging == Init /\ [][StagingNext]_vars

SpecPreprocess == Init /\ [][PreprocessNext]_vars

SpecSessionIndex == Init /\ [][IndexNext]_vars

(* ------------------------------------------------------------------ *)
(* Properties of the import.                                           *)
(* ------------------------------------------------------------------ *)

\* the platform id of the member a message row refers to
SenderOf(db, row) ==
    LET i == FirstIndex(db.member, LAMBDA m : m.id = row.sender_id)
    IN  IF i = 0 THEN NULL ELSE db.member[i].platform_id

\* a message row is the row of a delivered message
RowIsOf(db, row, msg) ==
    /\ SenderOf(db, row) = msg.senderPlatformId
    /\ row.sender_account_name = msg.senderAccountName
    /\ row.ts = msg.timestamp
    /\ row.type = msg.type
    /\ row.content = msg.content

C2_NoNegativeTimestamp ==
    \A i \in 1..Len(store.message) : store.message[i].ts >= 0

\* the rows of one (member, name kind), as indices into the history table
HistoryOf(db, memberId, nameType) ==
    { i \in 1..Len(db.history) :
        db.history[i].member_id = memberId /\ db.history[i].name_type = nameType }

IsOpen(row) == "end_ts" \notin DOMAIN row

NameKinds == {"account_name", "group_nickname"}

\* C3: per (member, name kind) at most one history row is open, the
\* intervals [start_ts, end_ts) do not overlap pairwise, and the rows follow
\* each other in the order of their starts.  Two names first seen in the
\* same second give equal starts and an empty interval.
C3_HistoryWellFormed ==
    \A i \in 1..Len(store.history) :
        LET r == store.history[i]
            same == HistoryOf(store, r.member_id, r.name_type)
        IN  /\ Cardinality({ j \in same : IsOpen(store.history[j]) }) <= 1
            /\ ~IsOpen(r) => r.start_ts <= r.end_ts
            /\ \A j \in same \ {i} :
                  LET q == store.history[j]
                  IN  /\ \/ (~IsOpen(r) /\ r.end_ts <= q.start_ts)
                         \/ (~IsOpen(q) /\ q.end_ts <= r.start_ts)
                      /\ i < j => r.start_ts <= q.start_ts

C3_Witness ==
    /\ pc = "done"
    /\ \E i, j \in 1..Len(store.history) :
          /\ i < j
          /\ store.history[i].member_id = store.history[j].member_id
          /\ store.history[i].name_type = store.history[j].name_type
          /\ ~IsOpen(store.history[i])
          /\ IsOpen(store.history[j])

\* the history rows of a (member, kind) as <<name, start, end>>, end 0 if open
HistoryTriples(db, memberId, nameType) ==
    LET rows == SelectSeq(db.history,
                    LAMBDA r : r.member_id = memberId /\ r.name_type = nameType)
    IN  [k \in 1..Len(rows) |->
            <<rows[k].name, rows[k].start_ts,
              IF IsOpen(rows[k]) THEN 0 ELSE rows[k].end_ts>>]

\* C4: one sender posting as A at 1, B at 2, B at 3, A at 4 leaves the
\* account-name history A[1,2), B[2,4), A[4,open) and the member row at A.
C4_NicknameScenario ==
    ( /\ pc = "done"
      /\ delivered = 4
      /\ deliveredWhole = << PMsg("10", "A", "N", 1), PMsg("10", "B", "N", 2),
                             PMsg("10", "B", "M", 3), PMsg("10", "A", "M", 4) >> )
    => /\ HistoryTriples(store, getMemberId(store, "10"), "account_name")
            = << <<"A", 1, 2>>, <<"B", 2, 4>>, <<"A", 4, 0>> >>
       /\ \E m \in 1..Len(store.member) :
             /\ store.member[m].platform_id = "10"
             /\ store.member[m].account_name = "A"

\* the last name of a kind a member was seen with, NULL if none
LastObserved(log, platformId, field) ==
    LET seen == SelectSeq(log, LAMBDA m : m.senderPlatformId = platformId
                                          /\ Truthy(m, field))
    IN  IF seen = <<>> THEN NULL ELSE seen[Len(seen)][field]

\* C5: after a completed streaming import, for every member and name kind
\* with history rows, the open row carries the last name observed for the
\* member, which is also the name in the member row.
C5_TailIsLastObserved ==
    pc = "done" =>
        \A m \in 1..Len(store.member), kind \in NameKinds :
            LET rows == HistoryOf(store, store.member[m].id, kind)
                last == LastObserved(deliveredWhole, store.member[m].platform_id,
                            IF kind = "account_name" THEN "senderAccountName"
                            ELSE "senderGroupNickname")
            IN  rows # {} =>
                  /\ \E i \in rows : IsOpen(store.history[i])
                                     /\ store.history[i].name = last
                  /\ store.member[m][kind] = last

\* C6: once the import has returned a failure, no transaction is left and
\* neither the store file nor a sidecar exists.
C6_FailureLeavesNoFiles ==
    pc = "failed" => ~dbTxnOpen /\ files = {}


(* ------------------------------------------------------------------ *)
(* Properties of the merger.                                           *)
(* ------------------------------------------------------------------ *)

\* the files of a path list
FilesOf(filePaths) == { filePaths[k] : k \in 1..Len(filePaths) }

\* the content of a parsed or exported message, empty when it has none
TextOf(r) == IF "content" \in DOMAIN r THEN r.content ELSE <<>>

\* the messages of the staging stores in the order a merge of filePaths
\* traverses them, each with its source
Traversal(filePaths) ==
    Flatten([k \in 1..Len(filePaths) |->
        [i \in 1..Len(tempDb[filePaths[k]].message) |->
            [msg |-> streamMessages(tempDb[filePaths[k]])[i],
             source |-> filePaths[k]]]])

ParsedTriple(msg) == <<msg.timestamp, msg.senderPlatformId, Len(TextOf(msg))>>

ExportTriple(m) == <<m.timestamp, m.sender, Len(TextOf(m))>>

Merged == mergePc = "merged" /\ mergeResult.status = "success"

\* C7: in the merged output no two messages share (timestamp, sender
\* platform id, content length); every key of the sources is in the output,
\* and the message kept for a key is the first one with that key in the
\* traversal of the sources.
C7_FirstVariantWins ==
    Merged =>
        LET out  == mergeResult.messages
            trav == Traversal(mergeParams.filePaths)
        IN  /\ \A i, j \in 1..Len(out) :
                  i # j => ExportTriple(out[i]) # ExportTriple(out[j])
            /\ \A t \in 1..Len(trav) :
                  \E i \in 1..Len(out) : ExportTriple(out[i]) = ParsedTriple(trav[t].msg)
            /\ \A i \in 1..Len(out) :
                  \E t \in 1..Len(trav) :
                      /\ ParsedTriple(trav[t].msg) = ExportTriple(out[i])
                      /\ \A u \in 1..(t - 1) :
                            ParsedTriple(trav[u].msg) # ExportTriple(out[i])
                      /\ TextOf(trav[t].msg) = TextOf(out[i])
                      /\ trav[t].msg.senderAccountName = out[i].accountName

C7_Witness ==
    /\ Merged
    /\ LET trav == Traversal(mergeParams.filePaths)
       IN  \E t, u \in 1..Len(trav) :
              /\ t < u
              /\ trav[t].source # trav[u].source
              /\ ParsedTriple(trav[t].msg) = ParsedTriple(trav[u].msg)
              /\ TextOf(trav[t].msg) # TextOf(trav[u].msg)
    /\ \E i \in 1..Len(mergeResult.messages) :
          \E j \in 1..Len(mergeResult.messages) :
              ExportTriple(mergeResult.messages[i])[3] # ExportTriple(mergeResult.messages[j])[3]

\* the merged output has a message of that time and sender with that content
MergedHas(ts, sender, content) ==
    \E i \in 1..Len(mergeResult.messages) :
        /\ mergeResult.messages[i].timestamp = ts
        /\ mergeResult.messages[i].sender = sender
        /\ TextOf(mergeResult.messages[i]) = content

\* C8: for every conflict of the check that the user resolves to one side,
\* the export of a merge of the checked files has the chosen side's content
\* at the conflict's timestamp and sender and does not have the other side's.
C8_ResolutionsEffective ==
    (Merged /\ checkResult.status = "ok" /\ mergeParams.filePaths = checkedPaths) =>
        \A n \in 1..Len(checkResult.conflicts) :
            LET c == checkResult.conflicts[n]
                r == mergeParams.conflictResolutions[n]
            IN  /\ r.id = c.id
                /\ r.resolution = "keep1" =>
                      /\ MergedHas(c.timestamp, c.sender, c.content1)
                      /\ ~MergedHas(c.timestamp, c.sender, c.content2)
                /\ r.resolution = "keep2" =>
                      /\ MergedHas(c.timestamp, c.sender, c.content2)
                      /\ ~MergedHas(c.timestamp, c.sender, c.content1)

PictureTexts == {ImgA, ImgB}

\* the cross-source pairs of differing contents of one (timestamp, sender)
\* that are not two pictures, as <<timestamp, sender, {content, content}>>
CrossSourcePairs(all) ==
    { <<all[t].msg.timestamp, all[t].msg.senderPlatformId,
        {TextOf(all[t].msg), TextOf(all[u].msg)}>> :
        <<t, u>> \in { p \in (1..Len(all)) \X (1..Len(all)) :
            /\ all[p[1]].msg.timestamp = all[p[2]].msg.timestamp
            /\ all[p[1]].msg.senderPlatformId = all[p[2]].msg.senderPlatformId
            /\ all[p[1]].source # all[p[2]].source
            /\ TextOf(all[p[1]].msg) # TextOf(all[p[2]].msg)
            /\ ~({TextOf(all[p[1]].msg), TextOf(all[p[2]].msg)} \subseteq PictureTexts) } }

ReportedPair(c) == <<c.timestamp, c.sender, {c.content1, c.content2}>>

\* C9: a successful conflict check reports exactly one conflict for each
\* cross-source pair of differing contents of a (timestamp, sender) that are
\* not both pictures, with the lengths of the two contents, and nothing else.
C9_EveryCrossSourcePairReported ==
    checkResult.status = "ok" =>
        LET pairs == CrossSourcePairs(Traversal(checkedPaths))
            cs    == checkResult.conflicts
        IN  /\ \A p \in pairs :
                  Cardinality({ n \in 1..Len(cs) : ReportedPair(cs[n]) = p }) = 1
            /\ \A n \in 1..Len(cs) :
                  /\ ReportedPair(cs[n]) \in pairs
                  /\ cs[n].contentLength1 = Len(cs[n].content1)
                  /\ cs[n].contentLength2 = Len(cs[n].content2)

\* the two sources hold one message each, of one timestamp and sender, one
\* with the text of picture a and one with the text of picture b
PicturePairStaged ==
    /\ checkResult.status = "ok"
    /\ FilesOf(checkedPaths) = MergeSources
    /\ \A src \in MergeSources : Len(tempDb[src].message) = 1
    /\ tempDb["f1.json"].message[1].timestamp = tempDb["f2.json"].message[1].timestamp
    /\ tempDb["f1.json"].message[1].sender_platform_id
          = tempDb["f2.json"].message[1].sender_platform_id
    /\ {tempDb["f1.json"].message[1].content, tempDb["f2.json"].message[1].content}
          = PictureTexts

\* C10: when the two sources share a timestamp and sender with the contents
\* "[..: a.jpg]" and "[..: b.jpg]" of two pictures, the conflict check
\* reports no conflict and counts one auto-deduplicated message.
C10_PicturePairAutoDeduplicated ==
    PicturePairStaged =>
        /\ checkResult.conflicts = <<>>
        /\ autoDeduplicatedCount = 1

C10_Witness ==
    /\ PicturePairStaged
    /\ checkResult.conflicts = <<>>
    /\ autoDeduplicatedCount = 1

\* a check that returned and a merge that succeeded, of the same files
CheckedAndMerged ==
    /\ Merged
    /\ checkResult.status = "ok"
    /\ FilesOf(mergeParams.filePaths) = FilesOf(checkedPaths)

\* C11: the totalMessages a conflict check returns equals the number of
\* messages a merge of the same staging stores writes to the export.
C11_CountIsMergedSize ==
    CheckedAndMerged => checkResult.totalMessages = Len(mergeResult.messages)

C11_Witness ==
    /\ CheckedAndMerged
    /\ checkResult.totalMessages = 2
    /\ Len(mergeResult.messages) = 2
    /\ Len(Traversal(checkedPaths)) = 3

\* the pairs of messages of different sources, of one timestamp and sender,
\* whose contents are the same or are both pictures
AutoDeduplicatedPairs(all) ==
    { p \in (1..Len(all)) \X (1..Len(all)) :
        /\ p[1] < p[2]
        /\ all[p[1]].source # all[p[2]].source
        /\ all[p[1]].msg.timestamp = all[p[2]].msg.timestamp
        /\ all[p[1]].msg.senderPlatformId = all[p[2]].msg.senderPlatformId
        /\ \/ TextOf(all[p[1]].msg) = TextOf(all[p[2]].msg)
           \/ /\ isImageOnlyMessage(TextOf(all[p[1]].msg))
              /\ isImageOnlyMessage(TextOf(all[p[2]].msg)) }

\* C29: every pair of messages that the conflict check counts as
\* auto-deduplicated (the same content in different sources, or two picture
\* contents of different sources at one timestamp and sender) contributes
\* exactly one message to the merged export of the same sources.
C29_DeduplicatedPairMergedOnce ==
    CheckedAndMerged =>
        LET all == Traversal(checkedPaths)
            out == mergeResult.messages
        IN  \A p \in AutoDeduplicatedPairs(all) :
                Cardinality({ i \in 1..Len(out) :
                    /\ out[i].timestamp = all[p[1]].msg.timestamp
                    /\ out[i].sender = all[p[1]].msg.senderPlatformId
                    /\ TextOf(out[i]) \in {TextOf(all[p[1]].msg), TextOf(all[p[2]].msg)} })
                  = 1

\* the sources of the last conflict check are staged and report more than one
\* platform tag
MixedPlatformsChecked ==
    /\ mergePc \in {"checked", "merged"}
    /\ \A k \in 1..Len(checkedPaths) : cached(checkedPaths[k])
    /\ Cardinality(platformsOf(checkedPaths)) > 1

\* C12: a conflict check of sources with more than one platform tag fails
\* with an error whose code is mixed_platforms and returns no conflict list.
C12_MixedPlatformsCode ==
    MixedPlatformsChecked =>
        /\ checkResult.status = "error"
        /\ "conflicts" \notin DOMAIN checkResult
        /\ "code" \in DOMAIN checkResult
        /\ checkResult.code = "mixed_platforms"

\* the sources of the last merge are staged and report more than one
\* platform tag
MixedPlatformsMerged ==
    /\ mergePc = "merged"
    /\ \A k \in 1..Len(mergeParams.filePaths) : cached(mergeParams.filePaths[k])
    /\ Cardinality(platformsOf(mergeParams.filePaths)) > 1

\* C13: a merge of sources with more than one platform tag returns an error,
\* writes no export and creates no session.
C13_MixedPlatformsMergeRejected ==
    MixedPlatformsMerged =>
        /\ mergeResult.status = "failure"
        /\ "messages" \notin DOMAIN mergeResult
        /\ "session" \notin DOMAIN mergeResult

\* the attributes of a merged member with the columns of the staging stores
\* that hold them
MemberAttributes ==
    { <<"accountName", "account_name">>, <<"groupNickname", "group_nickname">>,
      <<"avatar", "avatar">> }

\* the rows of member platformId in the staging store of src (none or one)
MemberRows(src, platformId) ==
    { i \in 1..Len(tempDb[src].member) :
        tempDb[src].member[i].platform_id = platformId }

\* the positions in filePaths of the sources that give member platformId a
\* non-empty value in column col
Providers(filePaths, platformId, col) ==
    { k \in 1..Len(filePaths) :
        \E i \in MemberRows(filePaths[k], platformId) :
            col \in DOMAIN tempDb[filePaths[k]].member[i] }

\* the value source src gives member platformId in column col
ProvidedBy(src, platformId, col) ==
    tempDb[src].member[CHOOSE i \in MemberRows(src, platformId) : TRUE][col]

\* the platform ids of the members of the sources
StagedMemberIds(filePaths) ==
    UNION { { tempDb[filePaths[k]].member[i].platform_id :
                i \in 1..Len(tempDb[filePaths[k]].member) } :
            k \in 1..Len(filePaths) }

\* the last position of a non-empty set of positions
LastOf(positions) == CHOOSE k \in positions : \A j \in positions : j <= k

\* C14: the merged member list has exactly one entry for each platform id of
\* the sources, and every attribute some source gives a non-empty value has
\* the value of the last such source in the order of the merge.
C14_MembersLastNonEmptyWins ==
    Merged =>
        LET out   == mergeResult.members
            paths == mergeParams.filePaths
        IN  /\ { out[i].platformId : i \in 1..Len(out) } = StagedMemberIds(paths)
            /\ \A i, j \in 1..Len(out) : i # j => out[i].platformId # out[j].platformId
            /\ \A i \in 1..Len(out) : \A a \in MemberAttributes :
                  Providers(paths, out[i].platformId, a[2]) # {} =>
                      /\ a[1] \in DOMAIN out[i]
                      /\ out[i][a[1]] =
                            ProvidedBy(paths[LastOf(Providers(paths, out[i].platformId, a[2]))],
                                       out[i].platformId, a[2])

\* the messages of the export a source was parsed from, in the order of the
\* file: the staging store holds every field of a delivered message
ExportOf(src) ==
    [i \in 1..Len(tempDb[src].message) |->
        exportMessage(parsedMessageOf(tempDb[src].message[i]))]

\* the rank of a sender id among the sender ids of the model
SenderRank(sender) == IF sender = Sender10 THEN 0 ELSE 1

\* messages in the order of a stable sort by (timestamp, sender)
SortedByTimeAndSender(messages) ==
    StableSort(messages,
        [i \in 1..Len(messages) |->
            2 * messages[i].timestamp + SenderRank(messages[i].sender)])

\* a merge of the one source f1.json: the export is written again
ReExported == Merged /\ mergeParams.filePaths = <<"f1.json">>

\* C15: the messages of the export a merge writes for one staged export are
\* the messages of that export, up to a stable sort by (timestamp, sender).
C15_RoundTrip ==
    ReExported =>
        SortedByTimeAndSender(mergeResult.messages)
            = SortedByTimeAndSender(ExportOf("f1.json"))

(* ------------------------------------------------------------------ *)
(* Properties of the worker.                                           *)
(* ------------------------------------------------------------------ *)

\* the worker starts to execute the request at the head of its queue
StartsExecuting ==
    /\ toWorker # <<>>
    /\ toWorker' = Tail(toWorker)
    /\ Head(toWorker).id \in listened'

\* C16: the worker never starts to execute a request for a session while a
\* write request for that session is still in progress.
C16_OneRequestPerSession ==
    [][StartsExecuting =>
          \A request \in awaiting :
              ~(/\ request.type \in WriteTypes
                /\ request.payload.sessionId = Head(toWorker).payload.sessionId)]_vars

\* the positions of the resolve, reject and terminal-response entries of a log
Terminals(log) == { k \in 1..Len(log) : log[k] # "progress" }

\* C27: every request sent to the worker is settled exactly once, by the
\* response, by its timeout or by the exit of the worker, whichever comes
\* first; its entry of pendingRequests is removed with that, and a later
\* response, progress message or timer expiry for its id calls nothing and
\* changes nothing.
C27_SettledExactlyOnce ==
    \A n \in 1..MaxRequests :
        LET id == RequestId(n)
            log == settled[id]
        IN  /\ Cardinality(Terminals(log)) <= 1
            /\ \A k \in Terminals(log) : k = Len(log)
            /\ n <= requestIdCounter => (id \in pendingRequests <=> Terminals(log) = {})
            /\ n > requestIdCounter => (id \notin pendingRequests /\ log = <<>>)
            /\ (n <= requestIdCounter /\ id \notin timers) => Terminals(log) # {}

\* a request was settled by its timeout after a progress callback, and the
\* response the worker posted for it has been delivered since
C27_Witness ==
    \E n \in 1..MaxRequests :
        /\ settled[RequestId(n)] = <<"progress", "timeout">>
        /\ workerPosts[RequestId(n)] = <<"progress", "success">>
        /\ \A k \in 1..Len(toMain) : toMain[k].id # RequestId(n)

\* the ids of the requests whose handler has not settled
AwaitingIds == { request.id : request \in awaiting }

\* C28: for every request message the worker receives it posts exactly one
\* terminal response with the id of the request, a success or a failure, also
\* for a type without a handler and for a handler that throws or rejects; the
\* progress messages of a request are posted before its terminal response.
C28_OneTerminalResponse ==
    \A n \in 1..MaxRequests :
        LET id == RequestId(n)
            log == workerPosts[id]
        IN  /\ id \notin listened => log = <<>>
            /\ id \in AwaitingIds => Terminals(log) = {}
            /\ (id \in listened /\ id \notin AwaitingIds)
                   => Cardinality(Terminals(log)) = 1
            /\ \A k \in Terminals(log) : k = Len(log)

\* the worker has answered one request at once with a failure and another
\* with a failure after a progress message
C28_Witness ==
    \E m, n \in 1..MaxRequests :
        /\ workerPosts[RequestId(m)] = <<"failure">>
        /\ workerPosts[RequestId(n)] = <<"progress", "failure">>

(* ------------------------------------------------------------------ *)
(* Properties of the parser run and of the progress of its request.    *)
(* ------------------------------------------------------------------ *)

\* the positions of the progress events the caller has received
ProgressReceived == { i \in 1..Len(received) : received[i].type = "progress" }

\* C17: the progress events a caller receives for a request never decrease
\* in bytesRead or in messagesProcessed, and no progress event follows the
\* completion of the request.
C17_ProgressMonotone ==
    /\ \A i, j \in ProgressReceived :
          i < j =>
              /\ received[i].payload.bytesRead <= received[j].payload.bytesRead
              /\ received[i].payload.messagesProcessed
                    <= received[j].payload.messagesProcessed
    /\ \A i, j \in 1..Len(received) :
          (i < j /\ received[i].type = "result") => received[j].type # "progress"

IsNotProgress(event) == event.type # "progress"

\* events, the sequence a run yielded, and ev, the same without its progress
\* events: a meta, a members, batches of at most batchSize messages, a done,
\* and the done is the last event of all
WellFormedRun(events, ev) ==
    /\ Len(ev) >= 3
    /\ ev[1].type = "meta"
    /\ ev[2].type = "members"
    /\ ev[Len(ev)].type = "done"
    /\ \A i \in 3..(Len(ev) - 1) :
          /\ ev[i].type = "messages"
          /\ Len(ev[i].data) <= batchSize
    /\ events[Len(events)].type = "done"

\* the generator returned, or threw
RunCompleted == parsePc \in {"parsed", "returned"}
RunFailed == parsePc = "failed"

Answered == pageRequest.direction \in {"before", "after"}

\* the session of the request exists
OfSession == Answered /\ pageRequest.opts.sessionId = "s1"

\* a row of message passes the filter of the request: its author is not the
\* system author, its time and sender are the requested ones, and its text
\* is like one of the keywords
MatchesFilter(row) ==
    /\ \A m \in pageMember :
          m.id = row.sender_id =>
              ("account_name" \notin DOMAIN m \/ m.account_name # SystemName)
    /\ "filter" \in DOMAIN pageRequest.opts =>
          /\ "startTs" \in DOMAIN pageRequest.opts.filter =>
                row.ts >= pageRequest.opts.filter.startTs
          /\ "endTs" \in DOMAIN pageRequest.opts.filter =>
                row.ts <= pageRequest.opts.filter.endTs
          /\ "memberId" \in DOMAIN pageRequest.opts.filter =>
                row.sender_id = pageRequest.opts.filter.memberId
    /\ "senderId" \in DOMAIN pageRequest.opts => row.sender_id = pageRequest.opts.senderId
    /\ ("keywords" \in DOMAIN pageRequest.opts /\ pageRequest.opts.keywords # <<>>) =>
          /\ "content" \in DOMAIN row
          /\ \E k \in 1..Len(pageRequest.opts.keywords) :
                Like(<<"%">> \o pageRequest.opts.keywords[k] \o <<"%">>, row.content)

\* the ids of the matching messages on the requested side of the cursor
OnSide ==
    { pageMessage[i].id : i \in
        { j \in 1..Len(pageMessage) :
            /\ MatchesFilter(pageMessage[j])
            /\ IF pageRequest.direction = "before"
               THEN pageMessage[j].id < pageRequest.cursor
               ELSE pageMessage[j].id > pageRequest.cursor } }

\* the ids of the messages returned
Returned == { pageResult.messages[i].id : i \in 1..Len(pageResult.messages) }

\* a is nearer to the cursor than b, both on the requested side
Nearer(a, b) == IF pageRequest.direction = "before" THEN a > b ELSE a < b

\* C19: a page holds at most n messages, each once, all matching the filter
\* and strictly on the requested side of the cursor, namely the n matching
\* messages nearest to the cursor (all of them when there are fewer), and
\* hasMore is true exactly when more than n matching messages are on that side.
C19_PagingWindow ==
    OfSession =>
        /\ Len(pageResult.messages) <= pageRequest.limit
        /\ Cardinality(Returned) = Len(pageResult.messages)
        /\ Returned \subseteq OnSide
        /\ Cardinality(Returned) = Min(pageRequest.limit, Cardinality(OnSide))
        /\ \A a \in Returned, b \in OnSide \ Returned : Nearer(a, b)
        /\ pageResult.hasMore <=> Cardinality(OnSide) > pageRequest.limit

\* a page before a cursor, cut at its limit, with a message on that side
\* that the keyword filter leaves out
C19_Witness ==
    /\ OfSession
    /\ pageRequest.direction = "before"
    /\ "keywords" \in DOMAIN pageRequest.opts
    /\ pageRequest.limit = 1
    /\ Len(pageResult.messages) = 1
    /\ pageResult.hasMore
    /\ \E i \in 1..Len(pageMessage) :
          /\ pageMessage[i].id < pageRequest.cursor
          /\ ~MatchesFilter(pageMessage[i])

\* C20: when before(id, n) says hasMore, before(id, n + 1) of the same
\* session, unchanged, returns at least n + 1 rows.
C20_HasMoreMonotone ==
    (Answered /\ pageRequest.direction = "before" /\ pageResult.hasMore) =>
        Len(getMessagesBefore(pageMember, pageMessage, pageRequest.cursor,
                              pageRequest.limit + 1, pageRequest.opts).messages)
            >= pageRequest.limit + 1

C20_Witness ==
    /\ Answered
    /\ pageRequest.direction = "before"
    /\ pageRequest.limit = 2
    /\ pageResult.hasMore
    /\ Len(pageMessage) = 3

(* ------------------------------------------------------------------ *)
(* Properties of the context window.                                   *)
(* ------------------------------------------------------------------ *)

ContextAnswered == pageRequest.direction = "context" /\ pageRequest.sessionId = "s1"

SeedsOf(request) == { request.seeds[i] : i \in 1..Len(request.seeds) }

StoredIds == idsOf(pageMessage)

\* the ids of the rows returned, in the order returned
ReturnedIds == [i \in 1..Len(pageResult.messages) |-> pageResult.messages[i].id]

Ascending(seq) == \A i, j \in 1..Len(seq) : i < j => seq[i] < seq[j]

\* the stored ids within size of a seed, by id
InIdRange ==
    { x \in StoredIds :
        \E seed \in SeedsOf(pageRequest) :
            seed - pageRequest.size <= x /\ x <= seed + pageRequest.size }

\* the stored ids that are a seed or among the size nearest stored ids
\* below or above a seed
InRowRange ==
    { x \in StoredIds :
        \E seed \in SeedsOf(pageRequest) :
            \/ x = seed
            \/ /\ x < seed
               /\ Cardinality({ y \in StoredIds : x < y /\ y < seed }) < pageRequest.size
            \/ /\ x > seed
               /\ Cardinality({ y \in StoredIds : seed < y /\ y < x }) < pageRequest.size }

\* C21 as claimed: the context window holds exactly the stored rows whose id
\* is in a range [id - k, id + k] of a seed, each once, by ascending id.
C21_Original ==
    ContextAnswered =>
        /\ Ascending(ReturnedIds)
        /\ { ReturnedIds[i] : i \in 1..Len(ReturnedIds) } = InIdRange

\* C21 amended: the context window holds exactly the seeds that are stored
\* and, for each seed, the k stored rows nearest below it and the k stored
\* rows nearest above it, each row once, by ascending id.
C21_ContextWindow ==
    ContextAnswered =>
        /\ Ascending(ReturnedIds)
        /\ { ReturnedIds[i] : i \in 1..Len(ReturnedIds) } = InRowRange

\* a window over a store with a gap in its ids: a row is returned that no
\* id range of a seed holds
C21_Witness ==
    /\ ContextAnswered
    /\ Len(pageRequest.seeds) = 2
    /\ pageRequest.size = 1
    /\ \E i \in 1..Len(ReturnedIds) : ReturnedIds[i] \notin InIdRange

(* ------------------------------------------------------------------ *)
(* Properties of the distributions.                                    *)
(* ------------------------------------------------------------------ *)

StatsAnswered == statRequest # NoRequest /\ statRequest.opts.sessionId = "s1"

\* the messages of the store that match the filter of the request and were
\* not sent by the system author
CountOfFilter ==
    Cardinality({ i \in 1..Len(statMessage) :
        /\ statMessage[i].sender_id # 3
        /\ "filter" \in DOMAIN statRequest.opts =>
              /\ "startTs" \in DOMAIN statRequest.opts.filter =>
                    statMessage[i].ts >= statRequest.opts.filter.startTs
              /\ "endTs" \in DOMAIN statRequest.opts.filter =>
                    statMessage[i].ts <= statRequest.opts.filter.endTs
              /\ "memberId" \in DOMAIN statRequest.opts.filter =>
                    statMessage[i].sender_id = statRequest.opts.filter.memberId })

BucketCounts == [k \in 1..Len(statResult) |-> statResult[k].messageCount]

\* C22: the bucket counts of the hourly, the weekday and the monthly
\* distribution each sum to the number of messages that match the filter and
\* were sent by non-system senders.
C22_BucketsSumToCount ==
    StatsAnswered => SumSeq(BucketCounts) = CountOfFilter

(* ------------------------------------------------------------------ *)
(* Properties of the session delete.                                   *)
(* ------------------------------------------------------------------ *)

\* C23: a delete removes the files only after the worker has evicted the
\* handle, and once the delete has completed the worker holds no open handle
\* of the deleted session, whatever requests of the session were sent
\* beside it.
C23_NoHandleOutlivesDelete ==
    /\ (delPc = "closing" /\ ~closeAnswered) => delTarget \in sessionFiles
    /\ delPc = "done" => (delTarget \notin sessionFiles /\ delTarget \notin dbCache)

(* ------------------------------------------------------------------ *)
(* Properties of the staging stores on disk.                           *)
(* ------------------------------------------------------------------ *)

\* the staging stores and sidecars of the directory
StagingFiles == { f \in tempDir : f.prefix = "merge_" }

C25_TempFileDeleted ==
    prePc = "returned" => preRun \notin tempFiles

\* the finally block does remove the file of every import that reaches the try
C25_DeletedAfterTry ==
    (prePc = "returned" /\ preResult \in {"success", "failure"}
        /\ tempFilePath # NoTempFile)
        => preRun \notin tempFiles

(* ------------------------------------------------------------------ *)
(* C26: one member row per platform id                                 *)
(* ------------------------------------------------------------------ *)

C30_IndexInvalidated ==
    ixPc = "idle" =>
        \/ sessionIndex = <<>>
        \/ sessionIndex = generateSessions(ixMessage, indexGap)

====
